---- MODULE Spec2Model ----
(***************************************************************************)
(* A model of the AML interpreter (aml_test_build_macro/aml/interpreter.py)*)
(* and of the static resolver (aml/11analyzer.py).                         *)
(*                                                                         *)
(* The module holds several specifications over one set of variables; each *)
(* specification drives one part of the interpreter and leaves the         *)
(* variables of the other parts at their idle values.                      *)
(*   SpecEnv  : environments, declarations and simple-name assignment      *)
(*   SpecExec : statement execution, exceptions and cooperative cancel     *)
(*   SpecSpawn: spawn, the task threads and TaskHandle                     *)
(*   SpecCall : Function.call, the binding of arguments to parameters      *)
(*   SpecReactive: Signal.set, Effect.run and the current effect           *)
(*   SpecEntry: interpret() and the automatic call of the entrypoint       *)
(*   SpecModule: _load_aml_module and the in-memory module cache           *)
(*   SpecArith: _try_fold_binary and evaluate_BinaryOperation for / % //   *)
(*   SpecNamespace: Namespace attributes and their constants set           *)
(*   SpecThreadEnv: the thread-local Interpreter.environment               *)
(*   SpecRun: AMLRuntime.run_source / run_file against stop()              *)
(*   SpecBundle: ast_to_dict, JSON, dict_to_ast and a call of the function *)
(*   SpecCli: aml.py run_file, interpret() and the test runner             *)
(*   SpecLexer: Lexer.advance, number, identifier, get_next_token          *)
(*   SpecScenario: Function.call of f(a, b = 10) with `args`               *)
(*   SpecParser: Parser._try_fold_binary, _make_binary, logic_and, unary   *)
(*   SpecImport: execute_ImportAml and _load_aml_module, nested imports    *)
(*   SpecSymbol: Interpreter._resolve_dotted_symbol and its cache          *)
(*   SpecStop: AMLRuntime.call_function and parallel_call against stop()   *)
(*   SpecNested: SpecReactive with deeper nesting of Signal.set            *)
(***************************************************************************)
EXTENDS Integers, Sequences, FiniteSets, TLC

VARIABLES
    \* ---- Environment / resolver part ----
    envs,          \* heap of Environment objects, envs[1] is global_env
    scopes,        \* the resolver's Scope objects, scopes[i] belongs to envs[i]
    cur,           \* Interpreter.environment: index of the current environment
    useResolver,   \* TRUE when the program went through the static resolver
    sig_value,     \* Signal._value, one entry per Signal object
    sig_subs,      \* Signal._subscribers, one entry per Signal object
    ns_obj,        \* the Namespace object built by execute_NamespaceDeclaration
    halted,        \* interpret() has returned after an unhandled error
    lastStmt,      \* the statement executed last and how it ended
    nOps,          \* number of statements executed so far
    \* ---- Statement execution part ----
    program,       \* Program.statements of the run
    stack,         \* the active handlers of the interpreter thread, innermost last
    exc,           \* the exception being propagated, NoExc when none
    cancelled,     \* Interpreter.cancelled
    ev,            \* what the last step of the interpreter did
    \* ---- Task part ----
    tasks,         \* the threads started by spawn, with their result_container
    sp,            \* the spawning thread: the join call it is in, if any
    joinRet,       \* what the last TaskHandle.join call returned
    \* ---- Call part ----
    fn,            \* the called Function: declaration.params
    callArgs,      \* the call's positional and keyword arguments
    callSt,        \* how far Function.call has come, and its error
    \* ---- Reactive part ----
    registered,      \* how many effects effect(..) has constructed
    current_effect,  \* interpreter._current_effect (0: None)
    rstack,          \* the calls of Signal.set and Effect.run in progress
    rev,             \* what the last step of the reactive part did
    \* ---- Entrypoint part ----
    ep,              \* a run of interpret(): program, position, entrypoint name and flag
    \* ---- Module part ----
    modDisk,         \* the mtime of each module file on disk
    modBundle,       \* the paths of _caml_bundle ({}: no bundle loaded)
    modCache,        \* _aml_module_cache
    modImp,          \* the last _load_aml_module call and what it did
    \* ---- Arithmetic part ----
    bexp,            \* a binary expression: its operands, the parser's node, the value or error
    \* ---- Namespace part ----
    nspace,          \* the Namespace objects: runtime_ns and the one a script declares
    search_paths,    \* Interpreter.aml_search_paths
    nsev,            \* the last operation on a Namespace and its error
    \* ---- Thread environment part ----
    thr,             \* per thread: started, _env_local.environment (0: unset), saved previous_env
    nenv,            \* number of Environment objects created (1: global_env)
    tev,             \* the last step: its thread, what it did, the environment it used
    \* ---- Runtime run part ----
    runSt,           \* a run of AMLRuntime: the running thread's position, the lock, the cancel flag
    \* ---- Bundle part ----
    bd,              \* a function declaration: parsed, encoded, decoded, and called in both runs
    \* ---- Command-line part ----
    cli,             \* a run of `aml.py <file>` under the test runner: program, output, exit status
    \* ---- Lexer part ----
    lx,              \* a Lexer: text, pos, line, column, and the tokens produced so far
    \* ---- Scenario part ----
    scn,              \* a call of f(a, b = 10): its arguments, call environment and result
    \* ---- Parser part ----
    prs,             \* a parse of one expression: the node built so far and the operators taken
    \* ---- Import part ----
    imp,             \* nested module loads: import graph, loads in progress, cache, executions of each body
    \* ---- Symbol cache part ----
    sym,             \* objects' attributes, Interpreter._symbol_cache and the last dotted resolution
    \* ---- Stop part ----
    stp              \* calls of call_function in progress, the runtime lock, the cancel flag, a stop() call

envVars == <<envs, scopes, cur, useResolver, sig_value, sig_subs, ns_obj,
             halted, lastStmt, nOps>>
execVars == <<program, stack, exc, cancelled, ev>>
taskVars == <<tasks, sp, joinRet>>
callVars == <<fn, callArgs, callSt>>
reactVars == <<registered, current_effect, rstack, rev>>
entryVars == <<ep>>
moduleVars == <<modDisk, modBundle, modCache, modImp>>
arithVars == <<bexp>>
nsVars == <<nspace, search_paths, nsev>>
threadEnvVars == <<thr, nenv, tev>>
runVars == <<runSt>>
bundleVars == <<bd>>
cliVars == <<cli>>
lexVars == <<lx>>
scnVars == <<scn>>
prsVars == <<prs>>
impVars == <<imp>>
symVars == <<sym>>
stpVars == <<stp>>

vars == <<envs, scopes, cur, useResolver, sig_value, sig_subs, ns_obj,
          halted, lastStmt, nOps, program, stack, exc, cancelled, ev,
          tasks, sp, joinRet, fn, callArgs, callSt,
          registered, current_effect, rstack, rev,
          ep,
          modDisk, modBundle, modCache, modImp,
          bexp,
          nspace, search_paths, nsev,
          thr, nenv, tev,
          runSt,
          bd,
          cli,
          lx,
          scn,
          prs,
          imp,
          sym,
          stp>>

\* the variables a specification of one part leaves alone
notEnv == <<execVars, taskVars, callVars, reactVars,
             entryVars,
             moduleVars,
             arithVars,
             nsVars,
             threadEnvVars,
             runVars,
             bundleVars,
             cliVars,
             lexVars,
             scnVars,
             prsVars,
             impVars,
             symVars,
             stpVars>>
notExec == <<scopes, useResolver, sig_value, sig_subs, ns_obj, halted,
             lastStmt, nOps, taskVars, callVars, reactVars,
             entryVars,
             moduleVars,
             arithVars,
             nsVars,
             threadEnvVars,
             runVars,
             bundleVars,
             cliVars,
             lexVars,
             scnVars,
             prsVars,
             impVars,
             symVars,
             stpVars>>
notTask == <<envVars, execVars, callVars, reactVars,
             entryVars,
             moduleVars,
             arithVars,
             nsVars,
             threadEnvVars,
             runVars,
             bundleVars,
             cliVars,
             lexVars,
             scnVars,
             prsVars,
             impVars,
             symVars,
             stpVars>>
notCall == <<scopes, useResolver, sig_value, sig_subs, ns_obj, halted,
             lastStmt, nOps, execVars, taskVars, reactVars,
             entryVars,
             moduleVars,
             arithVars,
             nsVars,
             threadEnvVars,
             runVars,
             bundleVars,
             cliVars,
             lexVars,
             scnVars,
             prsVars,
             impVars,
             symVars,
             stpVars>>
notReactive == <<envs, scopes, cur, useResolver, ns_obj, halted, lastStmt,
                 nOps, execVars, taskVars, callVars,
             entryVars,
             moduleVars,
             arithVars,
             nsVars,
             threadEnvVars,
             runVars,
             bundleVars,
             cliVars,
             lexVars,
             scnVars,
             prsVars,
             impVars,
             symVars,
             stpVars>>
notModule == <<envVars, execVars, taskVars, callVars, reactVars, entryVars,
             arithVars,
             nsVars,
             threadEnvVars,
             runVars,
             bundleVars,
             cliVars,
             lexVars,
             scnVars,
             prsVars,
             impVars,
             symVars,
             stpVars>>
notEntry == <<envVars, execVars, taskVars, callVars, reactVars,
             moduleVars,
             arithVars,
             nsVars,
             threadEnvVars,
             runVars,
             bundleVars,
             cliVars,
             lexVars,
             scnVars,
             prsVars,
             impVars,
             symVars,
             stpVars>>
notNamespace == <<envVars, execVars, taskVars, callVars, reactVars, entryVars, moduleVars, arithVars,
             threadEnvVars,
             runVars,
             bundleVars,
             cliVars,
             lexVars,
             scnVars,
             prsVars,
             impVars,
             symVars,
             stpVars>>
notArith == <<envVars, execVars, taskVars, callVars, reactVars, entryVars, moduleVars,
             nsVars,
             threadEnvVars,
             runVars,
             bundleVars,
             cliVars,
             lexVars,
             scnVars,
             prsVars,
             impVars,
             symVars,
             stpVars>>
notRun == <<envVars, execVars, taskVars, callVars, reactVars, entryVars, moduleVars, arithVars, nsVars, threadEnvVars,
             bundleVars,
             cliVars,
             lexVars,
             scnVars,
             prsVars,
             impVars,
             symVars,
             stpVars>>
notThreadEnv == <<envVars, execVars, taskVars, callVars, reactVars, entryVars, moduleVars, arithVars, nsVars,
             runVars,
             bundleVars,
             cliVars,
             lexVars,
             scnVars,
             prsVars,
             impVars,
             symVars,
             stpVars>>
notCli == <<envVars, execVars, taskVars, callVars, reactVars, entryVars, moduleVars, arithVars, nsVars, threadEnvVars, runVars, bundleVars,
             lexVars,
             scnVars,
             prsVars,
             impVars,
             symVars,
             stpVars>>
notBundle == <<envVars, execVars, taskVars, callVars, reactVars, entryVars, moduleVars, arithVars, nsVars, threadEnvVars, runVars,
             cliVars,
             lexVars,
             scnVars,
             prsVars,
             impVars,
             symVars,
             stpVars>>
notScenario == <<envVars, execVars, taskVars, callVars, reactVars, entryVars, moduleVars, arithVars, nsVars, threadEnvVars, runVars, bundleVars, cliVars, lexVars,
             prsVars,
             impVars,
             symVars,
             stpVars>>
notLex == <<envVars, execVars, taskVars, callVars, reactVars, entryVars, moduleVars, arithVars, nsVars, threadEnvVars, runVars, bundleVars, cliVars,
             scnVars,
             prsVars,
             impVars,
             symVars,
             stpVars>>
notImport == <<envVars, execVars, taskVars, callVars, reactVars, entryVars, moduleVars, arithVars, nsVars, threadEnvVars, runVars, bundleVars, cliVars, lexVars, scnVars, prsVars,
             symVars,
             stpVars>>
notParser == <<envVars, execVars, taskVars, callVars, reactVars, entryVars, moduleVars, arithVars, nsVars, threadEnvVars, runVars, bundleVars, cliVars, lexVars, scnVars,
             impVars,
             symVars,
             stpVars>>
notSymbol == <<envVars, execVars, taskVars, callVars, reactVars, entryVars, moduleVars, arithVars, nsVars, threadEnvVars, runVars, bundleVars, cliVars, lexVars, scnVars, prsVars, impVars,
             stpVars>>

----------------------------------------------------------------------------
(* Bounds *)

\* statements executed in one run of SpecEnv
MaxOps == 3
\* Signal objects created in one run
MaxSignals == 2
\* integer literals are 0..MaxLit
MaxLit == 1

----------------------------------------------------------------------------
(* Values *)

VarNames == {"x", "c"}
NsName == "n"
\* the names catch bodies and function calls define
CatchNames == {"error", "e"}
\* parameter names in declaration order, a global and a name of no parameter
ParamPool == <<"a", "b", "p">>
GlobalName == "g"
UnknownKey == "z"
AllNames == VarNames \cup {NsName} \cup CatchNames \cup {"args"}
            \cup {ParamPool[i] : i \in DOMAIN ParamPool}
            \cup {GlobalName, UnknownKey}

IntV(n) == [k |-> "int", v |-> n]
StrV(t) == [k |-> "str", v |-> 0, s |-> t]
ListV(l) == [k |-> "list", v |-> 0, l |-> l]
SigV(s) == [k |-> "sig", v |-> s]
NsV == [k |-> "ns", v |-> 0]
\* Python None
None == [k |-> "none", v |-> 0]
\* the name is not a key of the dict
Absent == [k |-> "absent", v |-> 0]

IsSignal(val) == val.k = "sig"

\* right-hand sides: an integer literal or a call signal(n)
Rhs == [k : {"lit", "newsig"}, v : 0..MaxLit]

\* the value a right-hand side evaluates to, and the Signal heap afterwards
RhsValue(e, heap) == IF e.k = "newsig" THEN SigV(Len(heap) + 1) ELSE IntV(e.v)
RhsHeap(e, heap) == IF e.k = "newsig" THEN Append(heap, IntV(e.v)) ELSE heap
RhsSubs(e, subs) == IF e.k = "newsig" THEN Append(subs, {}) ELSE subs

----------------------------------------------------------------------------
(* class Environment *)

Environment(enclosing, size) ==
    [values        |-> [n \in AllNames |-> Absent],
     slots         |-> [j \in 1..size |-> None],
     name_to_index |-> [n \in AllNames |-> -1],
     enclosing     |-> enclosing,
     constants     |-> {},
     version       |-> 0]

\* slots.extend([None] * (index - len(slots) + 1)) when index >= len(slots)
ExtendSlots(slots, index) ==
    IF index >= Len(slots)
    THEN slots \o [j \in 1..(index - Len(slots) + 1) |-> None]
    ELSE slots

Environment_define(e, name, value, index, is_const) ==
    LET c == IF is_const THEN e.constants \cup {name} ELSE e.constants
        s == IF index # -1
             THEN [ExtendSlots(e.slots, index) EXCEPT ![index + 1] = value]
             ELSE e.slots
        m == IF index # -1
             THEN [e.name_to_index EXCEPT ![name] = index]
             ELSE e.name_to_index
    IN [e EXCEPT !.constants = c, !.slots = s, !.name_to_index = m,
                 !.values = [@ EXCEPT ![name] = value],
                 !.version = @ + 1]

\* curr.slots[index] when index < len(curr.slots), else None
Environment_get_at(e, index) ==
    IF index < Len(e.slots) THEN e.slots[index + 1] ELSE None

\* the environment of the chain starting at c whose name map has the name (0: none)
RECURSIVE DefiningEnv(_, _, _)
DefiningEnv(es, c, name) ==
    IF c = 0 THEN 0
    ELSE IF es[c].values[name] # Absent THEN c
    ELSE DefiningEnv(es, es[c].enclosing, name)

\* Environment.try_get: the value, or Absent for _MISSING
Environment_try_get(es, c, name) ==
    LET t == DefiningEnv(es, c, name)
    IN IF t = 0 THEN Absent ELSE es[t].values[name]

\* Environment.assign: the error raised and the heap of environments afterwards
Environment_assign(es, c, name, value) ==
    LET t == DefiningEnv(es, c, name)
    IN IF t = 0 THEN [err |-> "UndefinedVariable", envs |-> es]
       ELSE IF name \in es[t].constants
       THEN [err |-> "ConstantReassignment", envs |-> es]
       ELSE LET idx == es[t].name_to_index[name]
                s == IF idx # -1 /\ idx < Len(es[t].slots)
                     THEN [es[t].slots EXCEPT ![idx + 1] = value]
                     ELSE es[t].slots
            IN [err  |-> "none",
                envs |-> [es EXCEPT ![t] =
                            [@ EXCEPT !.values = [@ EXCEPT ![name] = value],
                                      !.slots = s,
                                      !.version = @ + 1]]]

\* `for _ in range(depth): curr = curr.enclosing; if not curr: break`
RECURSIVE Ascend(_, _, _)
Ascend(es, c, depth) ==
    IF depth <= 0 \/ c = 0 THEN c
    ELSE Ascend(es, es[c].enclosing, depth - 1)

----------------------------------------------------------------------------
(* class Signal, without subscribers to run *)

\* Signal.set: the stored value changes only when it differs
Signal_store(heap, s, new_value) ==
    IF heap[s] # new_value THEN [heap EXCEPT ![s] = new_value] ELSE heap

----------------------------------------------------------------------------
(* class Scope of the resolver *)

Scope(parent) ==
    [symbols |-> [n \in AllNames |-> -1], next_index |-> 0, parent |-> parent,
     alias |-> 0]

\* a catch body runs in an Environment of its own, while the resolver analyses
\* it in the scope of the try statement: the entry of scopes that stands for
\* the catch environment only names that scope
AliasScope(s) == [Scope(0) EXCEPT !.alias = s]

\* the resolver's current_scope for the code that runs in environment c
ScopeOf(scs, c) == IF scs[c].alias # 0 THEN scs[c].alias ELSE c

\* Scope.define with a fresh Symbol: the symbol takes the next index
Scope_define(sc, name) ==
    [sc EXCEPT !.symbols = [@ EXCEPT ![name] = sc.next_index],
               !.next_index = @ + 1]

\* Scope.lookup: the symbol's index and the number of scopes ascended
RECURSIVE Scope_lookup(_, _, _, _)
Scope_lookup(scs, s, name, depth) ==
    IF s = 0 THEN [index |-> -1, depth |-> -1]
    ELSE IF scs[s].symbols[name] # -1
    THEN [index |-> scs[s].symbols[name], depth |-> depth]
    ELSE Scope_lookup(scs, scs[s].parent, name, depth + 1)

\* analyze_Assignment: the scopes afterwards and the address put on the node
analyze_Assignment(scs, s, name) ==
    LET found == Scope_lookup(scs, s, name, 0)
    IN IF found.index # -1
       THEN [scopes |-> scs, index |-> found.index, depth |-> found.depth]
       ELSE [scopes |-> [scs EXCEPT ![s] = Scope_define(@, name)],
             index  |-> scs[s].next_index,
             depth  |-> 0]

----------------------------------------------------------------------------
(* Interpreter.execute_Assignment on a simple name *)

\* the dynamic path: Signal check by name, then Environment.assign
AssignByName(es, c, heap, name, value) ==
    LET existing == Environment_try_get(es, c, name)
    IN IF IsSignal(existing)
       THEN [err |-> "none", envs |-> es,
             heap |-> Signal_store(heap, existing.v, value),
             set |-> existing.v]
       ELSE LET r == Environment_assign(es, c, name, value)
            IN [err |-> r.err, envs |-> r.envs, heap |-> heap, set |-> 0]

execute_Assignment(es, c, heap, name, value, idx, depth) ==
    LET curr == Ascend(es, c, depth)
    IN IF idx # -1 /\ curr # 0
       THEN LET slots == ExtendSlots(es[curr].slots, idx)
                existing == slots[idx + 1]
            IN IF IsSignal(existing)
               THEN [err |-> "none",
                     envs |-> [es EXCEPT ![curr].slots = slots],
                     heap |-> Signal_store(heap, existing.v, value),
                     set |-> existing.v]
               ELSE [err |-> "none",
                     envs |-> [es EXCEPT ![curr] =
                                 [@ EXCEPT !.slots = [slots EXCEPT ![idx + 1] = value],
                                           !.values = [@ EXCEPT ![name] = value],
                                           !.version = @ + 1]],
                     heap |-> heap,
                     set |-> 0]
       ELSE AssignByName(es, c, heap, name, value)

----------------------------------------------------------------------------
(* SpecEnv: a straight-line program of declarations and assignments, with   *)
(* one namespace body as the nested scope                                   *)

NoStmt == [op |-> "none", name |-> "x", value |-> None, err |-> "none",
           set |-> 0, idx |-> -1, depth |-> -1]

\* the state of the environment part right after Interpreter.__init__
EnvStart ==
    /\ envs = <<Environment(0, 0)>>
    /\ scopes = <<Scope(0)>>
    /\ cur = 1
    /\ sig_value = <<>>
    /\ sig_subs = <<>>
    /\ ns_obj = [declared |-> FALSE, attrs |-> [n \in AllNames |-> Absent],
                 constants |-> {}]
    /\ halted = FALSE
    /\ lastStmt = NoStmt
    /\ nOps = 0

ExecIdle ==
    /\ program = <<>>
    /\ stack = <<>>
    /\ exc = [kind |-> "none", msg |-> None]
    /\ cancelled = FALSE
    /\ ev = [what |-> "none", in |-> "none", left |-> 0]

TaskIdle ==
    /\ tasks = <<>>
    /\ sp = [pc |-> "idle", task |-> 0, timeout |-> FALSE, timedOut |-> FALSE,
             exc |-> "none"]
    /\ joinRet = [task |-> 0, ret |-> None, timeout |-> FALSE, timedOut |-> FALSE,
                  pcAtReturn |-> "none"]

CallIdle ==
    /\ fn = <<>>
    /\ callArgs = [P |-> <<>>, K |-> <<>>]
    /\ callSt = [pc |-> "none", err |-> "none", env |-> 0, body |-> 0,
                 caller |-> 0]

NoEvent == [what |-> "none", sig |-> 0, old |-> None, new |-> None,
            eff |-> 0, ran |-> {}, snap |-> {}, invoked |-> FALSE]

ReactiveIdle ==
    /\ registered = 0
    /\ current_effect = 0
    /\ rstack = <<>>
    /\ rev = NoEvent

EntryIdle ==
    ep = [phase |-> "none", prog |-> <<>>, pc |-> 0, name |-> FALSE,
          invoked |-> FALSE, calls |-> 0, runs |-> 0]

ModuleIdle ==
    /\ modDisk = <<>>
    /\ modBundle = {}
    /\ modCache = <<>>
    /\ modImp = [n |-> 0]

ArithIdle ==
    /\ bexp = [pc |-> "idle"]

NamespaceIdle ==
    /\ nspace = <<>>
    /\ search_paths = <<>>
    /\ nsev = [n |-> 0]

ThreadEnvIdle ==
    /\ thr = <<>>
    /\ nenv = 0
    /\ tev = [thread |-> 0]

RunIdle ==
    /\ runSt = [pc |-> "idle"]

BundleIdle ==
    /\ bd = [pc |-> "idle"]

CliIdle ==
    /\ cli = [pc |-> "idle"]

LexIdle ==
    /\ lx = [pc |-> "idle"]

ScenarioIdle ==
    /\ scn = [pc |-> "idle"]

ParserIdle ==
    /\ prs = [pc |-> "idle"]

ImportIdle ==
    /\ imp = [pc |-> "idle"]

SymbolIdle ==
    /\ sym = [pc |-> "idle"]

StopIdle ==
    /\ stp = [pc |-> "idle"]

InitEnv ==
    /\ EnvStart
    /\ useResolver \in BOOLEAN
    /\ ExecIdle
    /\ TaskIdle
    /\ StopIdle
    /\ SymbolIdle
    /\ ImportIdle
    /\ ParserIdle
    /\ ScenarioIdle
    /\ LexIdle
    /\ CliIdle
    /\ BundleIdle
    /\ RunIdle
    /\ ThreadEnvIdle
    /\ NamespaceIdle
    /\ ArithIdle
    /\ ModuleIdle
    /\ EntryIdle
    /\ CallIdle
    /\ ReactiveIdle

CanExec(e) ==
    /\ ~halted
    /\ nOps < MaxOps
    /\ e.k = "newsig" => Len(sig_value) < MaxSignals

\* `var name = e`: analyze_VarDeclaration, then execute_VarDeclaration
ExecVarDeclaration(name, e) ==
    /\ CanExec(e)
    /\ LET index == IF useResolver THEN scopes[ScopeOf(scopes, cur)].next_index ELSE -1
           value == RhsValue(e, sig_value)
       IN /\ scopes' = IF useResolver
                       THEN [scopes EXCEPT ![ScopeOf(scopes, cur)] = Scope_define(@, name)]
                       ELSE scopes
          /\ envs' = [envs EXCEPT ![cur] =
                        Environment_define(@, name, value, index, FALSE)]
          /\ lastStmt' = [op |-> "var", name |-> name, value |-> value,
                          err |-> "none", set |-> 0, idx |-> index, depth |-> 0]
    /\ sig_value' = RhsHeap(e, sig_value)
    /\ sig_subs' = RhsSubs(e, sig_subs)
    /\ nOps' = nOps + 1
    /\ UNCHANGED <<cur, useResolver, ns_obj, halted>>
    /\ UNCHANGED notEnv

\* `const name = e`: the resolver has no handler for ConstDeclaration, so the
\* node keeps no resolved_index; then execute_ConstDeclaration
ExecConstDeclaration(name, e) ==
    /\ CanExec(e)
    /\ LET value == RhsValue(e, sig_value)
       IN /\ envs' = [envs EXCEPT ![cur] =
                        Environment_define(@, name, value, -1, TRUE)]
          /\ lastStmt' = [op |-> "const", name |-> name, value |-> value,
                          err |-> "none", set |-> 0, idx |-> -1, depth |-> -1]
    /\ sig_value' = RhsHeap(e, sig_value)
    /\ sig_subs' = RhsSubs(e, sig_subs)
    /\ nOps' = nOps + 1
    /\ UNCHANGED <<scopes, cur, useResolver, ns_obj, halted>>
    /\ UNCHANGED notEnv

\* `for name in [e] { }`: analyze_ForStatement gives the variable a symbol,
\* execute_ForStatement defines it by name only
ExecForStatement(name, e) ==
    /\ CanExec(e)
    /\ LET value == RhsValue(e, sig_value)
       IN /\ scopes' = IF useResolver
                       THEN [scopes EXCEPT ![ScopeOf(scopes, cur)] = Scope_define(@, name)]
                       ELSE scopes
          /\ envs' = [envs EXCEPT ![cur] =
                        Environment_define(@, name, value, -1, FALSE)]
          /\ lastStmt' = [op |-> "for", name |-> name, value |-> value,
                          err |-> "none", set |-> 0, idx |-> -1, depth |-> -1]
    /\ sig_value' = RhsHeap(e, sig_value)
    /\ sig_subs' = RhsSubs(e, sig_subs)
    /\ nOps' = nOps + 1
    /\ UNCHANGED <<cur, useResolver, ns_obj, halted>>
    /\ UNCHANGED notEnv

\* `name = e`: analyze_Assignment, then execute_Assignment; an error ends
\* interpret()
ExecAssignment(name, e) ==
    /\ CanExec(e)
    /\ LET value == RhsValue(e, sig_value)
           heap == RhsHeap(e, sig_value)
           a == IF useResolver
                THEN analyze_Assignment(scopes, ScopeOf(scopes, cur), name)
                ELSE [scopes |-> scopes, index |-> -1, depth |-> -1]
           r == execute_Assignment(envs, cur, heap, name, value, a.index, a.depth)
       IN /\ scopes' = a.scopes
          /\ envs' = r.envs
          /\ sig_value' = r.heap
          /\ halted' = (r.err # "none")
          /\ lastStmt' = [op |-> "assign", name |-> name, value |-> value,
                          err |-> r.err, set |-> r.set,
                          idx |-> a.index, depth |-> a.depth]
    /\ sig_subs' = RhsSubs(e, sig_subs)
    /\ nOps' = nOps + 1
    /\ UNCHANGED <<cur, useResolver, ns_obj>>
    /\ UNCHANGED notEnv

\* `namespace n {`: analyze_NamespaceDeclaration opens a scope, and
\* execute_NamespaceDeclaration a child environment, for the body
NamespaceEnter ==
    /\ ~halted
    /\ nOps < MaxOps
    /\ cur = 1
    /\ ~ns_obj.declared
    /\ Len(envs) = 1
    /\ scopes' = IF useResolver
                 THEN Append([scopes EXCEPT ![1] = Scope_define(@, NsName)],
                             Scope(1))
                 ELSE Append(scopes, Scope(1))
    /\ envs' = Append(envs, Environment(cur, 0))
    /\ cur' = 2
    /\ lastStmt' = [NoStmt EXCEPT !.op = "ns_enter", !.name = NsName]
    /\ nOps' = nOps + 1
    /\ UNCHANGED <<useResolver, sig_value, sig_subs, ns_obj, halted>>
    /\ UNCHANGED notEnv

\* `}` of the namespace body: the names move to the Namespace object, which is
\* defined in the enclosing environment
NamespaceExit ==
    /\ ~halted
    /\ cur = 2
    /\ scopes[cur].alias = 0
    /\ ns_obj' = [declared |-> TRUE, attrs |-> envs[2].values,
                  constants |-> envs[2].constants]
    /\ envs' = [envs EXCEPT ![1] = Environment_define(@, NsName, NsV, -1, FALSE)]
    /\ cur' = 1
    /\ lastStmt' = [NoStmt EXCEPT !.op = "ns_exit", !.name = NsName]
    /\ UNCHANGED <<scopes, useResolver, sig_value, sig_subs, halted, nOps>>
    /\ UNCHANGED notEnv

\* `try { raise .. } catch (var) {`: analyze_TryCatchStatement defines the
\* error variable in the current scope and analyses the catch body there;
\* execute_TryCatchStatement makes catch_env, defines the variable in it by
\* name and runs the body in it (execute_block)
CatchEnter(var) ==
    /\ ~halted
    /\ nOps < MaxOps
    /\ cur = Len(envs)
    /\ scopes[cur].alias = 0
    /\ LET s == ScopeOf(scopes, cur)
       IN  scopes' = Append(IF useResolver
                            THEN [scopes EXCEPT ![s] = Scope_define(@, var)]
                            ELSE scopes,
                            AliasScope(s))
    /\ envs' = Append(envs, Environment_define(Environment(cur, 0), var,
                                               StrV("err"), -1, FALSE))
    /\ cur' = Len(envs) + 1
    /\ lastStmt' = [NoStmt EXCEPT !.op = "catch_enter", !.name = var]
    /\ nOps' = nOps + 1
    /\ UNCHANGED <<useResolver, sig_value, sig_subs, ns_obj, halted>>
    /\ UNCHANGED notEnv

\* `}` of the catch body: the finally clause of execute_block
CatchExit ==
    /\ ~halted
    /\ scopes[cur].alias # 0
    /\ cur' = envs[cur].enclosing
    /\ lastStmt' = [NoStmt EXCEPT !.op = "catch_exit"]
    /\ UNCHANGED <<envs, scopes, useResolver, sig_value, sig_subs, ns_obj, halted, nOps>>
    /\ UNCHANGED notEnv

NextEnv ==
    \/ \E name \in VarNames, e \in Rhs : ExecVarDeclaration(name, e)
    \/ \E name \in VarNames, e \in Rhs : ExecConstDeclaration(name, e)
    \/ \E name \in VarNames, e \in Rhs : ExecForStatement(name, e)
    \/ \E name \in VarNames, e \in Rhs : ExecAssignment(name, e)
    \/ NamespaceEnter
    \/ NamespaceExit
    \/ \E var \in CatchNames : CatchEnter(var)
    \/ CatchExit

SpecEnv == InitEnv /\ [][NextEnv]_vars

----------------------------------------------------------------------------
(* C1 *)

\* the slot a name is recorded at, None when it has none
SlotOf(e, name) ==
    IF e.name_to_index[name] = -1 THEN None
    ELSE Environment_get_at(e, e.name_to_index[name])

\* C1: once `const x = v` has run in a scope, an assignment `x = w` that
\* targets that scope fails with ConstantReassignment and leaves x unchanged in
\* the name map and in the slot array, on the by-name and on the resolved path.
C1_ConstAssignmentFails ==
    [][(nOps' = nOps + 1 /\ lastStmt'.op = "assign") =>
         LET n == lastStmt'.name
             t == DefiningEnv(envs, cur, n)
         IN (t # 0 /\ n \in envs[t].constants) =>
              /\ lastStmt'.err = "ConstantReassignment"
              /\ envs'[t].values[n] = envs[t].values[n]
              /\ SlotOf(envs'[t], n) = SlotOf(envs[t], n)]_vars


\* C10: executing `x = v` while x is bound to a Signal leaves x bound to the
\* same Signal, whose value is then v, the update having gone through
\* Signal.set, on the resolved path and on the by-name path.
C10_SignalNotRebound ==
    [][(nOps' = nOps + 1 /\ lastStmt'.op = "assign") =>
         LET n == lastStmt'.name
             old == Environment_try_get(envs, cur, n)
         IN IsSignal(old) =>
              /\ Environment_try_get(envs', cur', n) = old
              /\ sig_value'[old.v] = lastStmt'.value
              /\ lastStmt'.set = old.v]_vars

\* C14: in one scope, `var x = w` executed after `const x = v` fails and
\* leaves x bound to v: a var declaration of a name that is in the scope's
\* constants set ends with an error and changes neither the name map nor
\* the constants set.
C14_VarAfterConstFails ==
    [][(nOps' = nOps + 1 /\ lastStmt'.op = "var") =>
         LET n == lastStmt'.name
         IN n \in envs[cur].constants =>
              /\ lastStmt'.err # "none"
              /\ envs'[cur].values[n] = envs[cur].values[n]
              /\ n \in envs'[cur].constants]_vars

\* C18: an assignment whose node the resolver gave resolved_index >= 0 has
\* resolved_depth >= 0, and ascending resolved_depth environments from the
\* current one reaches the environment that defines the name: the one the name
\* was defined in before the statement, and one that defines it afterwards;
\* in function and namespace bodies, in catch bodies, and for assignments to
\* names the resolver saw no declaration of.
C18_ResolvedAddress ==
    [][(nOps' = nOps + 1 /\ lastStmt'.op = "assign" /\ lastStmt'.idx >= 0) =>
         LET n == lastStmt'.name
             t == Ascend(envs, cur, lastStmt'.depth)
             d == DefiningEnv(envs, cur, n)
         IN /\ lastStmt'.depth >= 0
            /\ t # 0
            /\ d # 0 => t = d
            /\ envs'[t].values[n] # Absent]_vars

----------------------------------------------------------------------------
(* Statements of the executed program *)

\* iterations a loop of the program can make
MaxIter == 2
\* statements in a generated body
MaxBody == 2

Leaf(t) == [t |-> t, body |-> <<>>, alt |-> <<>>, n |-> 0, var |-> "", msg |-> None]
\* a statement that completes without effect on control
SPlain == Leaf("plain")
\* a statement whose evaluation raises RuntimeError
SFail == Leaf("fail")
\* `raise m`
SRaise(m) == [Leaf("raise") EXCEPT !.msg = m]
SBreak == Leaf("break")
SContinue == Leaf("continue")
SReturn == Leaf("return")
\* `if (c) { body } else { alt }`, c truthy iff n = 1
SIf(n, body, alt) == [Leaf("if") EXCEPT !.n = n, !.body = body, !.alt = alt]
\* `while (c) { body }`, c truthy the first n times it is evaluated
SWhile(n, body) == [Leaf("while") EXCEPT !.n = n, !.body = body]
\* `for x in 1..n { body }`
SFor(n, body) == [Leaf("for") EXCEPT !.n = n, !.body = body, !.var = "x"]
\* `f()` for a top-level `func f() { body }`
SCall(body) == [Leaf("call") EXCEPT !.body = body]
\* `try { body } catch (var) { alt }`, var = "" when no name is given
STry(body, alt, var) == [Leaf("try") EXCEPT !.body = body, !.alt = alt, !.var = var]

LeafStmts == {SPlain, SFail, SRaise(StrV("boom")), SRaise(IntV(7)),
              SBreak, SContinue, SReturn}

Bodies == UNION {[1..k -> LeafStmts] : k \in 1..MaxBody}

GeneratedPrograms ==
    {<<SIf(1, b, <<>>), SPlain>> : b \in Bodies}
    \cup {<<SWhile(MaxIter, b), SPlain>> : b \in Bodies}
    \cup {<<SFor(MaxIter, b), SPlain>> : b \in Bodies}
    \cup {<<SCall(b), SPlain>> : b \in Bodies}
    \cup {<<STry(b, <<SPlain>>, v), SPlain>> : b \in Bodies, v \in {"", "e"}}

NestedPrograms ==
    {<<SWhile(MaxIter, <<STry(<<SBreak>>, <<SPlain>>, "e"), SPlain>>), SPlain>>,
     <<SFor(MaxIter, <<STry(<<SContinue>>, <<SPlain>>, "e"), SPlain>>), SPlain>>,
     <<SCall(<<STry(<<SReturn>>, <<SPlain>>, "e"), SPlain>>), SPlain>>,
     <<STry(<<SCall(<<SRaise(StrV("boom"))>>), SPlain>>, <<SPlain, SPlain>>, "e"), SPlain>>,
     <<STry(<<SCall(<<SBreak>>)>>, <<SPlain>>, ""), SPlain>>,
     <<STry(<<SFail>>, <<SFail>>, "e"), SPlain>>,
     <<STry(<<SFail>>, <<>>, "e"), SPlain>>,
     <<STry(<<STry(<<SFail>>, <<SRaise(IntV(7))>>, "e")>>, <<SPlain>>, ""), SPlain>>,
     <<STry(<<SIf(1, <<SRaise(IntV(7))>>, <<>>)>>, <<SPlain>>, ""), SPlain>>,
     <<SIf(0, <<SPlain>>, <<SPlain, SPlain>>), SPlain>>,
     <<SWhile(MaxIter, <<SFor(MaxIter, <<SPlain>>), SPlain>>), SPlain>>,
     <<SCall(<<SWhile(MaxIter, <<SPlain, SPlain>>), SPlain>>), SPlain>>,
     <<SWhile(MaxIter, <<SIf(1, <<SPlain, SContinue>>, <<>>), SPlain>>), SPlain>>,
     <<SPlain, SPlain, SPlain>>}

ExecPrograms == GeneratedPrograms \cup NestedPrograms

----------------------------------------------------------------------------
(* Exceptions *)

NoExc == [kind |-> "none", msg |-> None]

\* ReturnValue, BreakException and ContinueException
ControlKinds == {"Break", "Continue", "Return"}

Digits == <<"0", "1", "2", "3", "4", "5", "6", "7", "8", "9">>

\* str(e) of an exception carrying the message val
PyStr(val) ==
    IF val.k = "str" THEN val.s
    ELSE IF val.k = "int" THEN Digits[val.v + 1]
    ELSE "None"

\* Interpreter.evaluate: a RuntimeError passes, anything else is re-raised as
\* RuntimeError("Error at line ..., column ...: " + str(e))
evaluate_reraise(e) ==
    IF e.kind = "RuntimeError" THEN e
    ELSE [kind |-> "RuntimeError", msg |-> StrV("Error at line: " \o PyStr(e.msg))]

\* the exception a leaf statement raises
RaisedBy(s) ==
    IF s.t = "fail" THEN [kind |-> "RuntimeError", msg |-> StrV("rt")]
    ELSE IF s.t = "raise" THEN [kind |-> "AMLError", msg |-> s.msg]
    ELSE IF s.t = "break" THEN [kind |-> "Break", msg |-> StrV("(l, c)")]
    ELSE IF s.t = "continue" THEN [kind |-> "Continue", msg |-> StrV("(l, c)")]
    ELSE IF s.t = "return" THEN [kind |-> "Return", msg |-> StrV("")]
    ELSE NoExc

----------------------------------------------------------------------------
(* SpecExec: interpret() running one program while the host may cancel      *)

Frame(kind, stmts, pc, left, alt, var, prev) ==
    [kind |-> kind, stmts |-> stmts, pc |-> pc, left |-> left, alt |-> alt,
     var |-> var, prev |-> prev]

Top == stack[Len(stack)]
Pop(stk) == SubSeq(stk, 1, Len(stk) - 1)
Running == stack # <<>>
\* the innermost handler has statements left
HasNext == Top.pc <= Len(Top.stmts)
Advance(stk) == [stk EXCEPT ![Len(stk)].pc = @ + 1]

Event(what, in, left) == [what |-> what, in |-> in, left |-> left]

InitExec ==
    /\ EnvStart
    /\ useResolver = FALSE
    /\ program \in ExecPrograms
    /\ stack = <<Frame("interpret", program, 1, 0, <<>>, "", 0)>>
    /\ exc = NoExc
    /\ cancelled = FALSE
    /\ ev = Event("none", "none", 0)
    /\ TaskIdle
    /\ StopIdle
    /\ SymbolIdle
    /\ ImportIdle
    /\ ParserIdle
    /\ ScenarioIdle
    /\ LexIdle
    /\ CliIdle
    /\ BundleIdle
    /\ RunIdle
    /\ ThreadEnvIdle
    /\ NamespaceIdle
    /\ ArithIdle
    /\ ModuleIdle
    /\ EntryIdle
    /\ CallIdle
    /\ ReactiveIdle

\* Interpreter.execute(statement): the handler of the statement's type starts
execute(s) ==
    /\ ev' = Event("stmt", Top.kind, 0)
    /\ IF s.t \in {"plain", "fail", "raise", "break", "continue", "return"}
       THEN /\ stack' = Advance(stack)
            /\ exc' = RaisedBy(s)
            /\ UNCHANGED <<envs, cur>>
       ELSE IF s.t = "if"
       THEN /\ stack' = Append(Advance(stack),
                   Frame("if", IF s.n = 1 THEN s.body ELSE s.alt, 1, 0, <<>>, "", 0))
            /\ UNCHANGED <<exc, envs, cur>>
       ELSE IF s.t \in {"while", "for"}
       THEN /\ stack' = Append(Advance(stack),
                   Frame(s.t, s.body, Len(s.body) + 1, s.n, <<>>, s.var, 0))
            /\ UNCHANGED <<exc, envs, cur>>
       ELSE IF s.t = "call"
       THEN \* Function.call: a new environment enclosed by the captured one,
            \* `args` defined, then execute_block
            /\ envs' = Append(envs,
                   Environment_define(Environment(1, 0), "args", ListV(<<>>), -1, FALSE))
            /\ cur' = Len(envs) + 1
            /\ stack' = Append(Advance(stack),
                   Frame("block", s.body, 1, 0, <<>>, "", cur))
            /\ UNCHANGED exc
       ELSE \* try
            /\ stack' = Append(Advance(stack),
                   Frame("try", s.body, 1, 0, s.alt, s.var, 0))
            /\ UNCHANGED <<exc, envs, cur>>

\* interpret(): the loop over program.statements
interpret ==
    /\ Running /\ exc = NoExc /\ Top.kind = "interpret"
    /\ IF HasNext /\ ~cancelled
       THEN execute(Top.stmts[Top.pc])
       ELSE /\ stack' = <<>>
            /\ ev' = Event("return", "interpret", 0)
            /\ UNCHANGED <<exc, envs, cur>>
    /\ UNCHANGED <<program, cancelled>>
    /\ UNCHANGED notExec

\* interpret(): an exception of a statement is printed and ends the run
interpret_except ==
    /\ Running /\ exc # NoExc /\ Top.kind = "interpret"
    /\ stack' = <<>>
    /\ exc' = NoExc
    /\ ev' = Event("error", "interpret", 0)
    /\ UNCHANGED <<program, cancelled, envs, cur>>
    /\ UNCHANGED notExec

\* execute_block: the loop over the statements of a function or catch body,
\* and the `finally` that restores the environment
execute_block ==
    /\ Running /\ exc = NoExc /\ Top.kind \in {"block", "catch"}
    /\ IF HasNext /\ ~cancelled
       THEN execute(Top.stmts[Top.pc])
       ELSE /\ stack' = Pop(stack)
            /\ cur' = Top.prev
            /\ ev' = Event("end", Top.kind, 0)
            /\ UNCHANGED <<exc, envs>>
    /\ UNCHANGED <<program, cancelled>>
    /\ UNCHANGED notExec

\* Function.call and the evaluate() around it: ReturnValue ends the call,
\* any other exception leaves it, as a RuntimeError
Function_call_except ==
    /\ Running /\ exc # NoExc /\ Top.kind = "block"
    /\ stack' = Pop(stack)
    /\ cur' = Top.prev
    /\ exc' = IF exc.kind = "Return" THEN NoExc ELSE evaluate_reraise(exc)
    /\ ev' = Event("unwind", "block", 0)
    /\ UNCHANGED <<program, cancelled, envs>>
    /\ UNCHANGED notExec

\* execute_IfStatement: the loop over the chosen body
execute_IfStatement ==
    /\ Running /\ exc = NoExc /\ Top.kind = "if"
    /\ IF HasNext
       THEN execute(Top.stmts[Top.pc])
       ELSE /\ stack' = Pop(stack)
            /\ ev' = Event("end", "if", 0)
            /\ UNCHANGED <<exc, envs, cur>>
    /\ UNCHANGED <<program, cancelled>>
    /\ UNCHANGED notExec

\* an exception passes through an if statement, and through a catch body
\* whose execute_block restores the environment
propagate ==
    /\ Running /\ exc # NoExc /\ Top.kind \in {"if", "catch"}
    /\ stack' = Pop(stack)
    /\ cur' = IF Top.kind = "catch" THEN Top.prev ELSE cur
    /\ ev' = Event("unwind", Top.kind, 0)
    /\ UNCHANGED <<program, cancelled, envs, exc>>
    /\ UNCHANGED notExec

\* the loop goes on to a further iteration: the condition is truthy (an item
\* is left) and the cancellation flag is clear
LoopMayIterate_NoCancelCheck(f) == f.left > 0
LoopMayIterate(f) == f.left > 0 /\ ~cancelled

\* execute_WhileStatement / execute_ForStatement between two iterations:
\* condition or next item, then the cancellation check
loop_head ==
    /\ Running /\ exc = NoExc /\ Top.kind \in {"while", "for"} /\ ~HasNext
    /\ IF LoopMayIterate(Top)
       THEN /\ stack' = [stack EXCEPT ![Len(stack)].pc = 1,
                                      ![Len(stack)].left = @ - 1]
            /\ envs' = IF Top.kind = "for"
                       THEN [envs EXCEPT ![cur] =
                               Environment_define(@, Top.var, IntV(Top.left), -1, FALSE)]
                       ELSE envs
            /\ ev' = Event("iter", Top.kind, Top.left)
       ELSE /\ stack' = Pop(stack)
            /\ ev' = Event("loop_exit", Top.kind, Top.left)
            /\ UNCHANGED envs
    /\ UNCHANGED <<program, cancelled, exc, cur>>
    /\ UNCHANGED notExec

\* the statements of a loop body
loop_body ==
    /\ Running /\ exc = NoExc /\ Top.kind \in {"while", "for"} /\ HasNext
    /\ execute(Top.stmts[Top.pc])
    /\ UNCHANGED <<program, cancelled>>
    /\ UNCHANGED notExec

\* except ContinueException: continue / except BreakException: break;
\* any other exception leaves the loop
loop_except ==
    /\ Running /\ exc # NoExc /\ Top.kind \in {"while", "for"}
    /\ IF exc.kind = "Continue"
       THEN /\ stack' = [stack EXCEPT ![Len(stack)].pc = Len(Top.stmts) + 1]
            /\ exc' = NoExc
            /\ ev' = Event("continue", Top.kind, Top.left)
       ELSE IF exc.kind = "Break"
       THEN /\ stack' = Pop(stack)
            /\ exc' = NoExc
            /\ ev' = Event("break", Top.kind, Top.left)
       ELSE /\ stack' = Pop(stack)
            /\ exc' = exc
            /\ ev' = Event("unwind", Top.kind, Top.left)
    /\ UNCHANGED <<program, cancelled, envs, cur>>
    /\ UNCHANGED notExec

\* execute_TryCatchStatement: the loop over try_body
execute_TryCatchStatement ==
    /\ Running /\ exc = NoExc /\ Top.kind = "try"
    /\ IF HasNext /\ ~cancelled
       THEN execute(Top.stmts[Top.pc])
       ELSE /\ stack' = Pop(stack)
            /\ ev' = Event("end", "try", 0)
            /\ UNCHANGED <<exc, envs, cur>>
    /\ UNCHANGED <<program, cancelled>>
    /\ UNCHANGED notExec

\* the exceptions the second except clause of the try statement handles
HandledByCatch_All(kind) == kind # "none"
HandledByCatch(kind) == kind \notin ControlKinds /\ kind # "none"

\* getattr(statement, 'error_var', None) or 'error'
ErrorVarName(var) == IF var = "" THEN "error" ELSE var

\* the value bound to the error variable: error_msg = str(e)
ErrorValue(e) == StrV(PyStr(e.msg))

\* execute_TryCatchStatement: the except clauses
try_except ==
    /\ Running /\ exc # NoExc /\ Top.kind = "try"
    /\ IF ~HandledByCatch(exc.kind)
       THEN /\ stack' = Pop(stack)
            /\ ev' = Event("unwind", "try", 0)
            /\ UNCHANGED <<exc, envs, cur>>
       ELSE IF Top.alt # <<>>
       THEN /\ envs' = Append(envs,
                   Environment_define(Environment(cur, 0), ErrorVarName(Top.var),
                                      ErrorValue(exc), -1, FALSE))
            /\ cur' = Len(envs) + 1
            /\ stack' = Append(Pop(stack),
                   Frame("catch", Top.alt, 1, 0, <<>>, Top.var, cur))
            /\ exc' = NoExc
            /\ ev' = Event("catch", "try", 0)
       ELSE /\ stack' = Pop(stack)
            /\ exc' = NoExc
            /\ ev' = Event("swallow", "try", 0)
            /\ UNCHANGED <<envs, cur>>
    /\ UNCHANGED <<program, cancelled>>
    /\ UNCHANGED notExec

\* Interpreter.cancel(), called by the host from another thread
cancel ==
    /\ Running
    /\ ~cancelled
    /\ cancelled' = TRUE
    /\ ev' = Event("cancel", "host", 0)
    /\ UNCHANGED <<program, stack, exc, envs, cur>>
    /\ UNCHANGED notExec

\* Interpreter.reset_cancel()
reset_cancel ==
    /\ Running
    /\ cancelled
    /\ cancelled' = FALSE
    /\ ev' = Event("reset", "host", 0)
    /\ UNCHANGED <<program, stack, exc, envs, cur>>
    /\ UNCHANGED notExec

NextExec ==
    \/ interpret
    \/ interpret_except
    \/ execute_block
    \/ Function_call_except
    \/ execute_IfStatement
    \/ propagate
    \/ loop_head
    \/ loop_body
    \/ loop_except
    \/ execute_TryCatchStatement
    \/ try_except
    \/ cancel
    \/ reset_cancel

SpecExec == InitExec /\ [][NextExec]_vars

----------------------------------------------------------------------------
(* C2, C3 *)

\* C2: while the cancelled flag is set the interpreter begins no statement:
\* no top-level statement and no statement nested in a function body, block,
\* try body, if/else body or loop iteration.
C2_NoStatementWhileCancelled ==
    [][cancelled => ev'.what # "stmt"]_vars

\* C3: while the cancelled flag is set a while or for loop starts no further
\* iteration, and a loop standing between two iterations ends without an
\* exception.
C3_NoIterationWhileCancelled ==
    [][cancelled =>
         /\ ev'.what # "iter"
         /\ (ev'.what = "loop_exit" => exc' = NoExc /\ stack' = Pop(stack))]_vars

\* a loop that had iterations left has been ended by the cancellation check
C3_Witness ==
    /\ cancelled
    /\ ev.what = "loop_exit"
    /\ ev.left > 0

----------------------------------------------------------------------------
(* C7 *)

\* the step is one of the interpreter thread, not of the host
InterpreterStep == ev'.what \notin {"cancel", "reset"}

\* C7: a Break, Continue or Return reaching a try statement leaves it
\* unchanged and runs no catch body; any other failure is cleared and starts
\* the catch body once, in a new child environment of the current one where
\* the error variable (default `error`) holds the failure's message as a
\* string; when the catch body is through, execution goes on after the
\* try/catch with no exception pending.
C7_TryCatch ==
    [][(Running /\ InterpreterStep) =>
         /\ (Top.kind = "try" /\ exc.kind \in ControlKinds) =>
              /\ stack' = Pop(stack)
              /\ exc' = exc
              /\ ev'.what # "catch"
              /\ envs' = envs /\ cur' = cur
         /\ (Top.kind = "try" /\ exc.kind \in {"RuntimeError", "AMLError"}
               /\ Top.alt # <<>>) =>
              /\ ev'.what = "catch"
              /\ exc' = NoExc
              /\ Len(stack') = Len(stack) /\ Pop(stack') = Pop(stack)
              /\ stack'[Len(stack')].kind = "catch"
              /\ stack'[Len(stack')].stmts = Top.alt
              /\ stack'[Len(stack')].pc = 1
              /\ cur' = Len(envs) + 1 /\ Len(envs') = Len(envs) + 1
              /\ envs'[cur'].enclosing = cur
              /\ LET bound == envs'[cur'].values[ErrorVarName(Top.var)]
                 IN bound.k = "str" /\ bound.s = PyStr(exc.msg)
         /\ ev'.what = "catch" => (Top.kind = "try" /\ exc # NoExc)
         /\ (Top.kind = "catch" /\ exc = NoExc /\ ~HasNext) =>
              /\ stack' = Pop(stack)
              /\ exc' = NoExc
              /\ cur' = Top.prev]_vars

\* a catch body has just been started for `raise 7` with the default name
C7_Witness ==
    /\ Running
    /\ ev.what = "catch"
    /\ Top.kind = "catch"
    /\ envs[cur].values["error"] = StrV("7")

----------------------------------------------------------------------------
(* SpecSpawn: evaluate_SpawnCall, the task threads, TaskHandle               *)

\* tasks spawned in one run
MaxTasks == 2

\* what spawn can be given: an AML Function or a host callable that returns,
\* raises an Exception or calls exit (SystemExit), or a value that is not
\* callable
Callees ==
    [kind : {"Function", "callable"}, outcome : {"return"}, ret : {IntV(42), None}]
    \cup [kind : {"Function", "callable"}, outcome : {"raise", "exit"}, ret : {None}]
    \cup {[kind |-> "value", outcome |-> "raise", ret |-> None]}

InitSpawn ==
    /\ EnvStart
    /\ useResolver = FALSE
    /\ ExecIdle
    /\ TaskIdle
    /\ StopIdle
    /\ SymbolIdle
    /\ ImportIdle
    /\ ParserIdle
    /\ ScenarioIdle
    /\ LexIdle
    /\ CliIdle
    /\ BundleIdle
    /\ RunIdle
    /\ ThreadEnvIdle
    /\ NamespaceIdle
    /\ ArithIdle
    /\ ModuleIdle
    /\ EntryIdle
    /\ CallIdle
    /\ ReactiveIdle

\* evaluate_SpawnCall: result_container = {'result': None, 'error': None},
\* then the thread is started and the TaskHandle returned
evaluate_SpawnCall(callee) ==
    /\ sp.pc = "idle"
    /\ Len(tasks) < MaxTasks
    /\ tasks' = Append(tasks, [callee |-> callee, pc |-> "running",
                               result |-> None, error |-> None, writes |-> 0])
    /\ UNCHANGED <<sp, joinRet>>
    /\ UNCHANGED notTask

\* the exceptions `except Exception` of _run_callable catches: SystemExit is
\* a BaseException and is not among them
CaughtByRunner(outcome) == outcome = "raise"

\* _run_callable: the callee ends; its value or its Exception is stored
run_callable(i) ==
    /\ tasks[i].pc = "running"
    /\ LET c == tasks[i].callee
       IN IF c.outcome = "return"
          THEN tasks' = [tasks EXCEPT ![i].result = c.ret, ![i].writes = @ + 1,
                                      ![i].pc = "stored"]
          ELSE IF CaughtByRunner(c.outcome)
          THEN tasks' = [tasks EXCEPT ![i].error = StrV("err"), ![i].writes = @ + 1,
                                      ![i].pc = "stored"]
          ELSE tasks' = [tasks EXCEPT ![i].pc = "terminated"]
    /\ UNCHANGED <<sp, joinRet>>
    /\ UNCHANGED notTask

\* the thread ends after _run_callable has returned
thread_exit(i) ==
    /\ tasks[i].pc = "stored"
    /\ tasks' = [tasks EXCEPT ![i].pc = "terminated"]
    /\ UNCHANGED <<sp, joinRet>>
    /\ UNCHANGED notTask

\* TaskHandle.done: not self._thread.is_alive()
TaskHandle_done(t) == t.pc = "terminated"

\* TaskHandle.join: the call is made
join_call(i, timeout) ==
    /\ sp.pc = "idle"
    /\ i \in DOMAIN tasks
    /\ sp' = [pc |-> "joining", task |-> i, timeout |-> timeout,
              timedOut |-> FALSE, exc |-> "none"]
    /\ UNCHANGED <<tasks, joinRet>>
    /\ UNCHANGED notTask

\* Thread.join(timeout) may return: the thread has terminated, or a timeout
\* was given and has elapsed
ThreadJoinReturns_Early(t, timeout) == TRUE
ThreadJoinReturns(t, timeout) == TaskHandle_done(t) \/ timeout

\* self._thread.join(timeout) returns
join_wake ==
    /\ sp.pc = "joining"
    /\ ThreadJoinReturns(tasks[sp.task], sp.timeout)
    /\ sp' = [sp EXCEPT !.pc = "woke",
                        !.timedOut = ~TaskHandle_done(tasks[sp.task])]
    /\ UNCHANGED <<tasks, joinRet>>
    /\ UNCHANGED notTask

\* `return self.result`
join_return ==
    /\ sp.pc = "woke"
    /\ joinRet' = [task |-> sp.task, ret |-> tasks[sp.task].result,
                   timeout |-> sp.timeout, timedOut |-> sp.timedOut,
                   pcAtReturn |-> tasks[sp.task].pc]
    /\ sp' = [sp EXCEPT !.pc = "idle", !.exc = "none"]
    /\ UNCHANGED tasks
    /\ UNCHANGED notTask

NextSpawn ==
    \/ \E callee \in Callees : evaluate_SpawnCall(callee)
    \/ \E i \in DOMAIN tasks : run_callable(i)
    \/ \E i \in DOMAIN tasks : thread_exit(i)
    \/ \E i \in DOMAIN tasks, timeout \in BOOLEAN : join_call(i, timeout)
    \/ join_wake
    \/ join_return

SpecSpawn == InitSpawn /\ [][NextSpawn]_vars

----------------------------------------------------------------------------
(* C4, C5 *)

\* C4: the result slot of every task is written exactly once by the task
\* thread, before the thread terminates, whatever way the callee ends: never
\* twice, and never left unwritten by a terminated thread.
C4_SlotWrittenExactlyOnce ==
    \A i \in DOMAIN tasks :
        /\ tasks[i].writes <= 1
        /\ ~(tasks[i].result # None /\ tasks[i].error # None)
        /\ TaskHandle_done(tasks[i]) => tasks[i].writes = 1

----------------------------------------------------------------------------
(* SpecCall: Function.call up to the execution of the body                   *)

\* parameters of the function, positional and keyword arguments of the call
MaxParams == 2
MaxArgs == 3
MaxKw == 2

\* the sentinel of a parameter not filled yet
MISSING_ARG == [k |-> "missing", v |-> 0]

\* a parameter spec is its default: none, a Number literal, or an expression
\* (the identifier g); parameter i is named ParamPool[i]
NoDefault == [k |-> "none", v |-> 0]
Defaults == {NoDefault, [k |-> "lit", v |-> 5], [k |-> "ident", v |-> 0]}
ParamSpecs == UNION {[1..n -> Defaults] : n \in 0..MaxParams}
param_names(specs) == [i \in 1..Len(specs) |-> ParamPool[i]]

Range(seq) == {seq[i] : i \in DOMAIN seq}

\* positional arguments
ArgValues == {IntV(1), None}
PosArgs == UNION {[1..n -> ArgValues] : n \in 0..MaxArgs}

\* keyword arguments: a dict, so the keys are distinct; in insertion order
KeyNames == {ParamPool[i] : i \in 1..MaxParams} \cup {UnknownKey}
KwArgs == {K \in UNION {[1..n -> KeyNames] : n \in 0..MaxKw} :
              \A i, j \in DOMAIN K : i # j => K[i] # K[j]}
KwValue(key) == StrV(key)

\* evaluate_Identifier of a name with no resolved address
evaluate_Identifier(es, c, name) ==
    LET val == Environment_try_get(es, c, name)
    IN IF val = Absent THEN Environment_try_get(es, 1, name) ELSE val

\* `for i, arg in enumerate(arguments): if i < len(param_names): define(...)`
RECURSIVE BindPositional(_, _, _, _)
BindPositional(e, names, P, i) ==
    IF i > Len(P) THEN e
    ELSE BindPositional(IF i <= Len(names)
                        THEN Environment_define(e, names[i], P[i], i - 1, FALSE)
                        ELSE e,
                        names, P, i + 1)

\* `for i in range(len(arguments), len(param_names)): define(.., MISSING_ARG, i)`
RECURSIVE FillMissing(_, _, _)
FillMissing(e, names, i) ==
    IF i > Len(names) THEN e
    ELSE FillMissing(Environment_define(e, names[i], MISSING_ARG, i - 1, FALSE),
                     names, i + 1)

\* param_names.index(key)
IndexOf(names, key) ==
    CHOOSE i \in 1..Len(names) :
        names[i] = key /\ \A j \in 1..(i - 1) : names[j] # key

\* `current_val is not MISSING_ARG`
IsFilled_Never(val) == FALSE
IsFilled(val) == val # MISSING_ARG

\* `for key, val in kwargs.items()`
RECURSIVE ApplyKwargs(_, _, _, _)
ApplyKwargs(e, names, K, j) ==
    IF j > Len(K) THEN [err |-> "none", env |-> e]
    ELSE IF K[j] \notin Range(names)
    THEN [err |-> "UnknownKeyword", env |-> e]
    ELSE LET idx == IndexOf(names, K[j]) - 1
         IN IF IsFilled(Environment_get_at(e, idx))
            THEN [err |-> "DuplicateKeyword", env |-> e]
            ELSE ApplyKwargs(Environment_define(e, K[j], KwValue(K[j]), idx, FALSE),
                             names, K, j + 1)

\* the value of a default: _default_literals[name] for a literal, else
\* interpreter.evaluate(expr), in the environment current at the call
DefaultValue(d, es, c) ==
    IF d.k = "lit" THEN IntV(d.v) ELSE evaluate_Identifier(es, c, GlobalName)

\* `for i, s in enumerate(param_specs)`
RECURSIVE ApplyDefaults(_, _, _, _, _)
ApplyDefaults(e, specs, i, es, c) ==
    IF i > Len(specs) THEN [err |-> "none", env |-> e]
    ELSE IF Environment_get_at(e, i - 1) = MISSING_ARG
    THEN IF specs[i] # NoDefault
         THEN ApplyDefaults(Environment_define(e, ParamPool[i],
                                DefaultValue(specs[i], es, c), i - 1, FALSE),
                            specs, i + 1, es, c)
         ELSE [err |-> "MissingArgument", env |-> e]
    ELSE ApplyDefaults(e, specs, i + 1, es, c)

\* Function.call up to the body: the error raised and the call environment
Function_bind(f, P, K, es, c) ==
    LET names == param_names(f.params)
        e0 == Environment(f.environment, f.locals_count)
        e1 == BindPositional(e0, names, P, 1)
        e2 == FillMissing(e1, names, Len(P) + 1)
        kw == ApplyKwargs(e2, names, K, 1)
        e3 == Environment_define(kw.env, "args", ListV(P), -1, FALSE)
    IN IF kw.err # "none" THEN kw ELSE ApplyDefaults(e3, f.params, 1, es, c)

InitCall ==
    /\ envs = <<Environment_define(Environment(0, 0), GlobalName, IntV(1), -1, FALSE),
                Environment_define(Environment(1, 0), GlobalName, IntV(2), -1, FALSE)>>
    /\ cur \in {1, 2}
    /\ scopes = <<Scope(0)>>
    /\ sig_value = <<>>
    /\ sig_subs = <<>>
    /\ ns_obj = [declared |-> FALSE, attrs |-> [n \in AllNames |-> Absent],
                 constants |-> {}]
    /\ halted = FALSE
    /\ lastStmt = NoStmt
    /\ nOps = 0
    /\ useResolver = FALSE
    /\ ExecIdle
    /\ TaskIdle
    /\ StopIdle
    /\ SymbolIdle
    /\ ImportIdle
    /\ ParserIdle
    /\ ScenarioIdle
    /\ LexIdle
    /\ CliIdle
    /\ BundleIdle
    /\ RunIdle
    /\ ThreadEnvIdle
    /\ NamespaceIdle
    /\ ArithIdle
    /\ ModuleIdle
    /\ EntryIdle
    /\ ReactiveIdle
    /\ \E specs \in ParamSpecs, size \in BOOLEAN :
          fn = [params |-> specs, environment |-> 1,
                locals_count |-> IF size THEN Len(specs) ELSE 0]
    /\ callArgs \in [P : PosArgs, K : KwArgs]
    /\ callSt = [pc |-> "called", err |-> "none", env |-> 0, body |-> 0,
                 caller |-> cur]

\* Function.call: the call environment is made and the arguments are bound
Function_call ==
    /\ callSt.pc = "called"
    /\ LET r == Function_bind(fn, callArgs.P, callArgs.K, envs, cur)
       IN /\ envs' = Append(envs, r.env)
          /\ callSt' = [callSt EXCEPT !.pc = IF r.err = "none" THEN "bound"
                                             ELSE "failed",
                                      !.err = r.err,
                                      !.env = Len(envs) + 1]
    /\ UNCHANGED <<fn, callArgs, cur>>
    /\ UNCHANGED notCall

\* interpreter.execute_block(self.declaration.body, environment)
Function_call_body ==
    /\ callSt.pc = "bound"
    /\ cur' = callSt.env
    /\ callSt' = [callSt EXCEPT !.pc = "body", !.body = 1]
    /\ UNCHANGED <<fn, callArgs, envs>>
    /\ UNCHANGED notCall

\* the body is done: execute_block restores the environment, call returns
Function_call_return ==
    /\ callSt.pc = "body"
    /\ cur' = callSt.caller
    /\ callSt' = [callSt EXCEPT !.pc = "returned"]
    /\ UNCHANGED <<fn, callArgs, envs>>
    /\ UNCHANGED notCall

NextCall ==
    \/ Function_call
    \/ Function_call_body
    \/ Function_call_return

SpecCall == InitCall /\ [][NextCall]_vars

----------------------------------------------------------------------------
(* C6 *)

\* the values a default can stand for: the literal, or what the identifier
\* denotes in the scope of the callee or in the scope of the caller
DefaultValues(d) ==
    IF d.k = "lit" THEN {IntV(d.v)}
    ELSE {Environment_try_get(envs, callSt.env, GlobalName),
          Environment_try_get(envs, callSt.caller, GlobalName)}

\* C6: once Function.call has bound the arguments, parameter i holds P[i] when
\* i <= |P|, else K[p_i] when present, else the value of its default, and
\* `args` is the list of all of P; the call fails, with no body statement
\* executed, exactly when a key of K is no parameter name (UnknownKeyword), a
\* key of K names a parameter filled positionally (DuplicateKeyword), or a
\* parameter has no positional value, keyword value or default
\* (MissingArgument), and the error raised is one whose condition holds.
C6_CallBinding ==
    callSt.pc \notin {"none", "called"} =>
        LET specs == fn.params
            names == param_names(specs)
            P == callArgs.P
            K == callArgs.K
            n == Len(specs)
            e == envs[callSt.env]
            unknown == \E j \in DOMAIN K : K[j] \notin Range(names)
            duplicate == \E j \in DOMAIN K : \E i \in 1..n :
                            names[i] = K[j] /\ i <= Len(P)
            missing == \E i \in 1..n : /\ i > Len(P)
                                      /\ names[i] \notin Range(K)
                                      /\ specs[i] = NoDefault
            Expected(i) == IF i <= Len(P) THEN {P[i]}
                           ELSE IF names[i] \in Range(K) THEN {KwValue(names[i])}
                           ELSE DefaultValues(specs[i])
        IN /\ (callSt.err = "none") <=> ~(unknown \/ duplicate \/ missing)
           /\ callSt.err = "UnknownKeyword" => unknown
           /\ callSt.err = "DuplicateKeyword" => duplicate
           /\ callSt.err = "MissingArgument" => missing
           /\ callSt.err # "none" => callSt.pc = "failed" /\ callSt.body = 0
           /\ callSt.err = "none" =>
                /\ \A i \in 1..n : /\ e.values[names[i]] \in Expected(i)
                                   /\ e.slots[i] = e.values[names[i]]
                /\ e.values["args"] = ListV(P)

\* a call f(1, b = ..) of f(a, b) has bound both and runs the body
C6_Witness ==
    /\ callSt.pc = "body"
    /\ Len(fn.params) = 2
    /\ callArgs.P = <<IntV(1)>>
    /\ callArgs.K = <<"b">>
    /\ envs[callSt.env].values["a"] = IntV(1)
    /\ envs[callSt.env].values["b"] = StrV("b")

----------------------------------------------------------------------------
(* C29 *)

\* the parameters of the call that take their default, an expression
DefaultedByExpression ==
    {i \in 1..Len(fn.params) :
        /\ fn.params[i].k = "ident"
        /\ i > Len(callArgs.P)
        /\ ParamPool[i] \notin Range(callArgs.K)}

\* C29: a parameter that takes a non-literal default is bound to the value the
\* default expression has in the scope of the callee, the call environment
\* enclosed by the environment the function captured, whatever the
\* environment of the caller holds
C29_DefaultInCalleeScope ==
    callSt.pc \in {"bound", "body", "returned"} =>
        \A i \in DefaultedByExpression :
            envs[callSt.env].values[ParamPool[i]] =
                evaluate_Identifier(envs, callSt.env, GlobalName)

----------------------------------------------------------------------------
(* SpecReactive: class Signal, class Effect                                  *)

\* effects registered, reads and assignments one run of an effect's function
\* makes, nested calls of Signal.set and Effect.run, signals of the program
MaxEffects == 2
MaxEffectOps == 1
MaxDepth == 4
MaxReactiveSignals == 1

\* An effect's function is any AML function: what it reads and assigns in a
\* run may depend on the values it reads, so each run makes any sequence of at
\* most MaxEffectOps reads of signals and assignments to signals.

RunFrame(e, prev) ==
    [kind |-> "run", effect |-> e, pc |-> 1, prev |-> prev,
     sig |-> 0, pending |-> {}, snap |-> {}, ran |-> {}, cur |-> 0]
\* a call of Signal.set after the store: list(self._subscribers) is `snap`,
\* the effects not looked at yet are `pending`, those invoked are `ran`
SetFrame(s, subs, ce) ==
    [kind |-> "set", effect |-> 0, pc |-> 0, prev |-> 0,
     sig |-> s, pending |-> subs, snap |-> subs, ran |-> {}, cur |-> ce]

RTop == rstack[Len(rstack)]
RPop == SubSeq(rstack, 1, Len(rstack) - 1)

InitReactive ==
    /\ envs = <<Environment(0, 0)>>
    /\ scopes = <<Scope(0)>>
    /\ cur = 1
    /\ sig_value = [s \in 1..MaxReactiveSignals |-> IntV(0)]
    /\ sig_subs = [s \in 1..MaxReactiveSignals |-> {}]
    /\ ns_obj = [declared |-> FALSE, attrs |-> [n \in AllNames |-> Absent],
                 constants |-> {}]
    /\ halted = FALSE
    /\ lastStmt = NoStmt
    /\ nOps = 0
    /\ useResolver = FALSE
    /\ ExecIdle
    /\ TaskIdle
    /\ StopIdle
    /\ SymbolIdle
    /\ ImportIdle
    /\ ParserIdle
    /\ ScenarioIdle
    /\ LexIdle
    /\ CliIdle
    /\ BundleIdle
    /\ RunIdle
    /\ ThreadEnvIdle
    /\ NamespaceIdle
    /\ ArithIdle
    /\ ModuleIdle
    /\ EntryIdle
    /\ CallIdle
    /\ registered = 0
    /\ current_effect = 0
    /\ rstack = <<>>
    /\ rev = NoEvent

\* `if self._value != new_value`
ValueDiffers_Always(old, new) == TRUE
ValueDiffers(old, new) == old # new

\* `if effect != getattr(self._interpreter, '_current_effect', None)`
ShouldRun_Always(effect, ce) == TRUE
ShouldRun(effect, ce) == effect # ce

\* Signal.set up to the loop over the subscribers: `stk` is the stack of the
\* caller
Signal_set(stk, s, new_value) ==
    /\ IF ValueDiffers(sig_value[s], new_value)
       THEN /\ sig_value' = [sig_value EXCEPT ![s] = new_value]
            /\ rstack' = Append(stk, SetFrame(s, sig_subs[s], current_effect))
       ELSE /\ sig_value' = sig_value
            /\ rstack' = stk
    /\ rev' = [NoEvent EXCEPT !.what = "set", !.sig = s,
                              !.old = sig_value[s], !.new = new_value]

\* effect(func): Effect.__init__ runs the effect at once
Effect_init ==
    /\ rstack = <<>>
    /\ registered < MaxEffects
    /\ registered' = registered + 1
    /\ rstack' = <<RunFrame(registered + 1, current_effect)>>
    /\ current_effect' = registered + 1
    /\ rev' = [NoEvent EXCEPT !.what = "run", !.eff = registered + 1]
    /\ UNCHANGED <<sig_value, sig_subs>>
    /\ UNCHANGED notReactive

\* an assignment to a Signal-bound name at the top level of the program
toplevel_set(s, new_value) ==
    /\ rstack = <<>>
    /\ Signal_set(rstack, s, IntV(new_value))
    /\ UNCHANGED <<registered, current_effect, sig_subs>>
    /\ UNCHANGED notReactive

\* Signal.get in the effect's function: the current effect subscribes
effect_get(s) ==
    /\ rstack # <<>>
    /\ RTop.kind = "run"
    /\ RTop.pc <= MaxEffectOps
    /\ sig_subs' = IF current_effect # 0
                   THEN [sig_subs EXCEPT ![s] = @ \cup {current_effect}]
                   ELSE sig_subs
    /\ rev' = [NoEvent EXCEPT !.what = "get", !.sig = s]
    /\ rstack' = [rstack EXCEPT ![Len(rstack)].pc = @ + 1]
    /\ UNCHANGED <<registered, current_effect, sig_value>>
    /\ UNCHANGED notReactive

\* an assignment to a Signal-bound name in the effect's function
effect_set_step(s, new_value) ==
    /\ rstack # <<>>
    /\ RTop.kind = "run"
    /\ RTop.pc <= MaxEffectOps
    /\ Signal_set([rstack EXCEPT ![Len(rstack)].pc = @ + 1], s, IntV(new_value))
    /\ UNCHANGED <<registered, current_effect, sig_subs>>
    /\ UNCHANGED notReactive

effect_set(s, new_value) ==
    /\ Len(rstack) < MaxDepth
    /\ effect_set_step(s, new_value)

\* one turn of `for effect in list(self._subscribers)`: Effect.run is called
\* unless the effect is the current one (a set is iterated in any order)
set_dispatch_step ==
    /\ rstack # <<>>
    /\ RTop.kind = "set"
    /\ \E e \in RTop.pending :
          LET invoked == ShouldRun(e, current_effect)
              f == [RTop EXCEPT !.pending = @ \ {e},
                                !.ran = IF invoked THEN @ \cup {e} ELSE @]
          IN /\ IF invoked
                THEN /\ rstack' = Append([rstack EXCEPT ![Len(rstack)] = f],
                                         RunFrame(e, current_effect))
                     /\ current_effect' = e
                ELSE /\ rstack' = [rstack EXCEPT ![Len(rstack)] = f]
                     /\ current_effect' = current_effect
             /\ rev' = [NoEvent EXCEPT !.what = "dispatch", !.eff = e,
                                       !.sig = RTop.sig, !.invoked = invoked]
    /\ UNCHANGED <<registered, sig_value, sig_subs>>
    /\ UNCHANGED notReactive

set_dispatch ==
    /\ Len(rstack) < MaxDepth
    /\ set_dispatch_step

\* the loop of Signal.set is over
set_return ==
    /\ rstack # <<>>
    /\ RTop.kind = "set"
    /\ RTop.pending = {}
    /\ rstack' = RPop
    /\ rev' = [NoEvent EXCEPT !.what = "set_return", !.sig = RTop.sig,
                              !.ran = RTop.ran, !.snap = RTop.snap,
                              !.eff = RTop.cur]
    /\ UNCHANGED <<registered, current_effect, sig_value, sig_subs>>
    /\ UNCHANGED notReactive

\* Effect.run: the function has returned, `finally` restores the current effect
Effect_run_return ==
    /\ rstack # <<>>
    /\ RTop.kind = "run"
    /\ current_effect' = RTop.prev
    /\ rstack' = RPop
    /\ rev' = [NoEvent EXCEPT !.what = "run_return", !.eff = RTop.effect]
    /\ UNCHANGED <<registered, sig_value, sig_subs>>
    /\ UNCHANGED notReactive

NextReactive ==
    \/ Effect_init
    \/ \E s \in 1..MaxReactiveSignals, v \in 0..MaxLit : toplevel_set(s, v)
    \/ \E s \in 1..MaxReactiveSignals : effect_get(s)
    \/ \E s \in 1..MaxReactiveSignals, v \in 0..MaxLit : effect_set(s, v)
    \/ set_dispatch
    \/ set_return
    \/ Effect_run_return

SpecReactive == InitReactive /\ [][NextReactive]_vars

----------------------------------------------------------------------------
(* C8, C9 *)

C9_NoSelfReentry ==
    [][/\ (/\ rev'.what = "dispatch"
           /\ Len(rstack) >= 2
           /\ rstack[Len(rstack) - 1].kind = "run"
           /\ rstack[Len(rstack) - 1].effect = rev'.eff) =>
              /\ ~rev'.invoked
              /\ Len(rstack') = Len(rstack)
       /\ \A i \in 1..(Len(rstack') - 2) :
              (rstack'[i].kind = "run" /\ rstack'[i + 1].kind = "set") =>
                  rstack'[i + 2].effect # rstack'[i].effect
       /\ rev'.what = "run_return" =>
              /\ RTop.kind = "run"
              /\ RTop.effect = current_effect
              /\ rstack' = RPop
              /\ current_effect' = RTop.prev]_vars

\* the function of effect E has set a signal E subscribes to, and the loop of
\* that set has passed E over
C9_Witness ==
    /\ rev.what = "dispatch"
    /\ ~rev.invoked
    /\ Len(rstack) >= 2
    /\ RTop.kind = "set"
    /\ rstack[Len(rstack) - 1].kind = "run"
    /\ rstack[Len(rstack) - 1].effect = rev.eff
    /\ rev.eff \in RTop.snap

----------------------------------------------------------------------------
(* C25 *)

\* nested calls of Signal.set and Effect.run of effects that trigger each other
MaxNestedDepth == 6

nested_effect_set(s, new_value) ==
    /\ Len(rstack) < MaxNestedDepth
    /\ effect_set_step(s, new_value)

nested_set_dispatch ==
    /\ Len(rstack) < MaxNestedDepth
    /\ set_dispatch_step

NextNested ==
    \/ Effect_init
    \/ \E s \in 1..MaxReactiveSignals, v \in 0..MaxLit : toplevel_set(s, v)
    \/ \E s \in 1..MaxReactiveSignals : effect_get(s)
    \/ \E s \in 1..MaxReactiveSignals, v \in 0..MaxLit : nested_effect_set(s, v)
    \/ nested_set_dispatch
    \/ set_return
    \/ Effect_run_return

SpecNested == InitReactive /\ [][NextNested]_vars

\* the runs of effects in progress: the Effect.run frames of the stack
RunsInProgress == {i \in 1..Len(rstack) : rstack[i].kind = "run"}

\* C25: no run of an effect starts while a run of that same effect is in
\* progress, whatever the effects assign
C25_NoReentry ==
    \A i, j \in RunsInProgress : rstack[i].effect = rstack[j].effect => i = j

----------------------------------------------------------------------------
(* SpecEntry: Interpreter.interpret and _invoke_entrypoint                   *)

\* top-level statements of a program, runs made on one interpreter
MaxTop == 2
MaxRuns == 2

\* top-level statements: one without effect on the entrypoint, a metadata
\* declaration with an `entry` field, a call of the entrypoint function
TopStmts == {"plain", "meta", "call_entry"}
TopPrograms == UNION {[1..n -> TopStmts] : n \in 0..MaxTop}

\* Interpreter.__init__: _entrypoint_name = None, _entry_invoked = False
InitEntry ==
    /\ EnvStart
    /\ useResolver = FALSE
    /\ ExecIdle
    /\ TaskIdle
    /\ StopIdle
    /\ SymbolIdle
    /\ ImportIdle
    /\ ParserIdle
    /\ ScenarioIdle
    /\ LexIdle
    /\ CliIdle
    /\ BundleIdle
    /\ RunIdle
    /\ ThreadEnvIdle
    /\ NamespaceIdle
    /\ ArithIdle
    /\ ModuleIdle
    /\ CallIdle
    /\ ReactiveIdle
    /\ ep = [phase |-> "idle", prog |-> <<>>, pc |-> 0, name |-> FALSE,
             invoked |-> FALSE, calls |-> 0, runs |-> 0]

\* AMLRuntime.set_entrypoint, called by the host between runs
set_entrypoint ==
    /\ ep.phase \in {"idle", "returned"}
    /\ ~ep.name
    /\ ep' = [ep EXCEPT !.name = TRUE]
    /\ UNCHANGED notEntry

\* AMLRuntime.run_source / run_file: the program is parsed and interpret() is
\* entered; `calls` counts the calls of the entrypoint function in this run
run_source(prog) ==
    /\ ep.phase \in {"idle", "returned"}
    /\ ep.runs < MaxRuns
    /\ ep' = [ep EXCEPT !.phase = "top", !.prog = prog, !.pc = 1,
                        !.calls = 0, !.runs = @ + 1]
    /\ UNCHANGED notEntry

\* one turn of `for statement in program.statements`: the statement runs
\* without error; execute_MetadataDeclaration sets _entrypoint_name, a call of
\* the entrypoint function goes through evaluate_FunctionCall
interpret_statement ==
    /\ ep.phase = "top"
    /\ ep.pc <= Len(ep.prog)
    /\ LET st == ep.prog[ep.pc]
       IN ep' = [ep EXCEPT !.pc = @ + 1,
                           !.name = IF st = "meta" THEN TRUE ELSE @,
                           !.calls = IF st = "call_entry" THEN @ + 1 ELSE @]
    /\ UNCHANGED notEntry

\* `if not self.cancelled and self._entrypoint_name and not self._entry_invoked`
AutoInvokes(e) == e.name /\ ~e.invoked

\* after the last statement: _invoke_entrypoint calls the function and sets
\* _entry_invoked; then interpret() returns
interpret_finish ==
    /\ ep.phase = "top"
    /\ ep.pc > Len(ep.prog)
    /\ ep' = IF AutoInvokes(ep)
             THEN [ep EXCEPT !.phase = "returned", !.calls = @ + 1,
                             !.invoked = TRUE]
             ELSE [ep EXCEPT !.phase = "returned"]
    /\ UNCHANGED notEntry

NextEntry ==
    \/ set_entrypoint
    \/ \E prog \in TopPrograms : run_source(prog)
    \/ interpret_statement
    \/ interpret_finish

SpecEntry == InitEntry /\ [][NextEntry]_vars

----------------------------------------------------------------------------
(* C11 *)

\* C11: when a run whose program or host has set an entrypoint name returns
\* after a top level without error or cancellation, the entrypoint function
\* has been called exactly once in that run.
C11_EntrypointOnce ==
    [][(ep.phase = "top" /\ ep'.phase = "returned" /\ ep'.name) =>
          ep'.calls = 1]_vars

----------------------------------------------------------------------------
(* SpecModule: Interpreter._load_aml_module                                  *)

\* imports made in one run, largest mtime a file takes
MaxImports == 3
MaxMtime == 2
\* `if len(self._aml_module_cache) > 256: self._aml_module_cache.clear()`
ModuleCacheLimit == 256

\* absolute paths of the modules
ModPaths == {"/a.aml", "/b.aml"}

NoEntry == [present |-> FALSE, mtime |-> 0, env |-> 0, return_val |-> None]
CacheEntry(mtime, env, rv) ==
    [present |-> TRUE, mtime |-> mtime, env |-> env, return_val |-> rv]

\* how the execution of a module body ends: at its last statement, at a
\* top-level `return v`, or with an error
BodyOutcomes == {"end", "return", "error"}

NoImport ==
    [n |-> 0, path |-> "", executed |-> FALSE, outcome |-> "none", err |-> "none",
     mtime |-> 0, disk |-> FALSE, env |-> 0, return_val |-> None]

InitModule ==
    /\ EnvStart
    /\ useResolver = FALSE
    /\ ExecIdle
    /\ TaskIdle
    /\ StopIdle
    /\ SymbolIdle
    /\ ImportIdle
    /\ ParserIdle
    /\ ScenarioIdle
    /\ LexIdle
    /\ CliIdle
    /\ BundleIdle
    /\ RunIdle
    /\ ThreadEnvIdle
    /\ NamespaceIdle
    /\ ArithIdle
    /\ CallIdle
    /\ ReactiveIdle
    /\ EntryIdle
    /\ modDisk \in [ModPaths -> 0..1]
    /\ modBundle = {}
    /\ modCache = [p \in ModPaths |-> NoEntry]
    /\ modImp = NoImport

\* a module file is written (0: the file does not exist)
touch(p) ==
    /\ modDisk[p] < MaxMtime
    /\ modDisk' = [modDisk EXCEPT ![p] = @ + 1]
    /\ UNCHANGED <<modBundle, modCache, modImp>>
    /\ UNCHANGED notModule

\* load_caml: `self._caml_bundle = data['modules']`
load_caml(paths) ==
    /\ modBundle = {}
    /\ paths # {}
    /\ modBundle' = paths
    /\ UNCHANGED <<modDisk, modCache, modImp>>
    /\ UNCHANGED notModule

\* `if self._caml_bundle and file_path in self._caml_bundle: mtime = 0
\*  else: mtime = os.path.getmtime(file_path)`
InBundle(p) == p \in modBundle
ModuleMtime(p) == IF InBundle(p) THEN 0 ELSE modDisk[p]

\* `if cached and cached['mtime'] == mtime`
CacheHit_AnyMtime(cached, mtime) == cached.present
CacheHit(cached, mtime) == cached.present /\ cached.mtime = mtime

\* the cache after `self._aml_module_cache[cache_key] = {...}`
CacheStore(cache, p, entry) ==
    LET kept == IF Cardinality({q \in ModPaths : cache[q].present}) > ModuleCacheLimit
                THEN [q \in ModPaths |-> NoEntry]
                ELSE cache
    IN [kept EXCEPT ![p] = entry]

\* _load_aml_module(module_name): the module is found in the bundle or on
\* disk, else FileNotFoundError; the body runs only on a cache miss
load_aml_module(p, outcome) ==
    /\ modImp.n < MaxImports
    /\ IF ~InBundle(p) /\ modDisk[p] = 0
       THEN /\ modImp' = [NoImport EXCEPT !.n = modImp.n + 1, !.path = p,
                                          !.err = "FileNotFoundError"]
            /\ modCache' = modCache
       ELSE LET mtime == ModuleMtime(p)
                cached == modCache[p]
            IN IF CacheHit(cached, mtime)
               THEN /\ modImp' = [NoImport EXCEPT !.n = modImp.n + 1, !.path = p,
                                      !.mtime = mtime, !.disk = ~InBundle(p),
                                      !.env = cached.env,
                                      !.return_val = cached.return_val]
                    /\ modCache' = modCache
               ELSE LET env == modImp.n + 1
                        rv == IF outcome = "return" THEN IntV(env) ELSE None
                    IN /\ modImp' = [NoImport EXCEPT !.n = modImp.n + 1, !.path = p,
                                         !.executed = TRUE, !.outcome = outcome,
                                         !.err = IF outcome = "error"
                                                 THEN "RuntimeError" ELSE "none",
                                         !.mtime = mtime, !.disk = ~InBundle(p),
                                         !.env = env, !.return_val = rv]
                       /\ modCache' = IF outcome = "error" THEN modCache
                                      ELSE CacheStore(modCache, p,
                                                      CacheEntry(mtime, env, rv))
    /\ UNCHANGED <<modDisk, modBundle>>
    /\ UNCHANGED notModule

NextModule ==
    \/ \E p \in ModPaths : touch(p)
    \/ \E paths \in SUBSET ModPaths : load_caml(paths)
    \/ \E p \in ModPaths, outcome \in BodyOutcomes : load_aml_module(p, outcome)

SpecModule == InitModule /\ [][NextModule]_vars

----------------------------------------------------------------------------
(* C12 *)

\* C12: an import of a module found in the bundle or on disk whose path has a
\* cache entry with the module's current mtime executes no statement, leaves
\* the cache alone and yields the cached environment and return value; the
\* body is executed exactly when there is no such entry, and once it has run
\* to its end or to a return the entry is replaced by the new environment,
\* mtime and return value; a module of the bundle uses mtime 0 and the file's
\* mtime is not read.
C12_ModuleCache ==
    [][(modImp'.n = modImp.n + 1 /\ modImp'.err # "FileNotFoundError") =>
         LET p == modImp'.path
             current == IF p \in modBundle THEN 0 ELSE modDisk[p]
             entry == modCache[p]
             hit == entry.present /\ entry.mtime = current
         IN /\ hit => /\ ~modImp'.executed
                      /\ modCache' = modCache
                      /\ modImp'.env = entry.env
                      /\ modImp'.return_val = entry.return_val
            /\ modImp'.executed <=> ~hit
            /\ (modImp'.executed /\ modImp'.outcome # "error") =>
                  /\ modCache'[p] = CacheEntry(current, modImp'.env,
                                               modImp'.return_val)
                  /\ modImp'.env # entry.env
            /\ p \in modBundle => (modImp'.mtime = 0 /\ ~modImp'.disk)]_vars

\* a module cached from disk was imported again after its file changed and
\* again without a change: the second import ran the body, the third did not
C12_Witness ==
    /\ modImp.n = 3
    /\ ~modImp.executed
    /\ modImp.disk
    /\ modImp.mtime = 2
    /\ modCache[modImp.path] = CacheEntry(2, 2, IntV(2))

----------------------------------------------------------------------------
(* SpecArith: Parser._make_binary and Interpreter.evaluate_BinaryOperation   *)
(* for the operators /, % and //                                             *)

\* largest integer literal of an operand
MaxNum == 2

\* a float, and every result of a division, is the ratio num/den (den > 0)
FloatV(num, den) == [k |-> "float", v |-> 0, num |-> num, den |-> den]

\* the characters of the string operands
DigitChars == {"0", "1", "2"}
DigitValue(c) == CASE c = "0" -> 0 [] c = "1" -> 1 [] c = "2" -> 2

\* the operand values: integers, floats, strings (as character sequences) and None
ArithValues ==
    {IntV(n) : n \in 0..MaxNum}
    \cup {FloatV(0, 10), FloatV(15, 10)}
    \cup {StrV(<<"0">>), StrV(<<"2">>), StrV(<<"0", ".", "0">>),
          StrV(<<"1", ".", "2">>), StrV(<<"x">>)}
    \cup {None}

\* an operand is a literal of the source text or an identifier holding the value
Operands == [lit : BOOLEAN, val : ArithValues]

ArithOps == {"DIVIDE", "MODULO", "FLOOR_DIVIDE"}

\* int(v) of a string of digits
RECURSIVE PyInt(_)
PyInt(s) == IF s = <<>> THEN 0 ELSE 10 * PyInt(SubSeq(s, 1, Len(s) - 1)) + DigitValue(s[Len(s)])

RECURSIVE Pow10(_)
Pow10(n) == IF n = 0 THEN 1 ELSE 10 * Pow10(n - 1)

IsDigits(s) == Len(s) > 0 /\ \A i \in 1..Len(s) : s[i] \in DigitChars
DotAt(s) == {i \in 1..Len(s) : s[i] = "."}

\* Interpreter._to_num: int and float as they are, a string through float(v) when
\* it holds a '.', through int(v) otherwise; None when that fails or for any
\* other value
to_num(val) ==
    IF val.k \in {"int", "float"} THEN val
    ELSE IF val.k = "str" THEN
        IF DotAt(val.s) # {} THEN
            IF /\ Cardinality(DotAt(val.s)) = 1
               /\ Len(val.s) > 1
               /\ \A i \in 1..Len(val.s) : val.s[i] \in DigitChars \cup {"."}
            THEN LET d == CHOOSE i \in DotAt(val.s) : TRUE
                     digits == SubSeq(val.s, 1, d - 1) \o SubSeq(val.s, d + 1, Len(val.s))
                 IN  FloatV(PyInt(digits), Pow10(Len(val.s) - d))
            ELSE None
        ELSE IF IsDigits(val.s) THEN IntV(PyInt(val.s))
        ELSE None
    ELSE None

\* numerator and denominator of a number
NumOf(n) == IF n.k = "int" THEN n.v ELSE n.num
DenOf(n) == IF n.k = "int" THEN 1 ELSE n.den
IsZero(n) == NumOf(n) = 0

\* Python's left / right, left // right and left % right, right # 0
PyDivide(l, r) == FloatV(NumOf(l) * DenOf(r), DenOf(l) * NumOf(r))
PyQuotient(l, r) == (NumOf(l) * DenOf(r)) \div (DenOf(l) * NumOf(r))
PyFloorDivide(l, r) ==
    IF l.k = "int" /\ r.k = "int" THEN IntV(PyQuotient(l, r))
    ELSE FloatV(PyQuotient(l, r), 1)
PyModulo(l, r) ==
    IF l.k = "int" /\ r.k = "int" THEN IntV(l.v % r.v)
    ELSE FloatV(NumOf(l) * DenOf(r) - PyQuotient(l, r) * NumOf(r) * DenOf(l),
                DenOf(l) * DenOf(r))
PyArith(op, l, r) ==
    CASE op = "DIVIDE" -> PyDivide(l, r)
      [] op = "FLOOR_DIVIDE" -> PyFloorDivide(l, r)
      [] op = "MODULO" -> PyModulo(l, r)

Value(v) == [err |-> "none", val |-> v]
Raise(msg) == [err |-> msg, val |-> Absent]

ZeroMessage(op) ==
    CASE op = "DIVIDE" -> "Division by zero"
      [] op = "MODULO" -> "Modulo by zero"
      [] op = "FLOOR_DIVIDE" -> "Floor division by zero"

\* the fast path: `type(left) in (int, float) and type(right) in (int, float)`,
\* `left / right if right != 0 else 0` (and the same for // and %)
FastPath(left, right) == left.k \in {"int", "float"} /\ right.k \in {"int", "float"}
FastPathResult(op, left, right) ==
    IF IsZero(right) THEN Value(IntV(0)) ELSE Value(PyArith(op, left, right))

\* the coercion path of DIVIDE, MODULO and FLOOR_DIVIDE
SlowPathResult(op, left, right) ==
    LET ln == to_num(left)
        rn == to_num(right)
    IN  IF ln # None /\ rn # None THEN
            IF IsZero(rn) THEN Raise(ZeroMessage(op)) ELSE Value(PyArith(op, ln, rn))
        ELSE Raise("Cannot apply to types")

evaluate_BinaryOperation(op, left, right) ==
    IF FastPath(left, right) THEN FastPathResult(op, left, right)
    ELSE SlowPathResult(op, left, right)

\* Parser._try_fold_binary: two Number literals are folded, except / and //
\* by 0 (return None) and % by 0 (ZeroDivisionError caught, return None)
IsNumberLiteral(o) == o.lit /\ o.val.k \in {"int", "float"}
Folds(op, l, r) == IsNumberLiteral(l) /\ IsNumberLiteral(r) /\ ~IsZero(r.val)

InitArith ==
    /\ EnvStart
    /\ useResolver = FALSE
    /\ ExecIdle
    /\ TaskIdle
    /\ StopIdle
    /\ SymbolIdle
    /\ ImportIdle
    /\ ParserIdle
    /\ ScenarioIdle
    /\ LexIdle
    /\ CliIdle
    /\ BundleIdle
    /\ RunIdle
    /\ ThreadEnvIdle
    /\ NamespaceIdle
    /\ CallIdle
    /\ ReactiveIdle
    /\ EntryIdle
    /\ ModuleIdle
    /\ \E op \in ArithOps, l, r \in Operands :
          bexp = [pc |-> "source", op |-> op, left |-> l, right |-> r,
                  folded |-> FALSE, number |-> None, err |-> "none", val |-> Absent]

\* Parser._make_binary: the folded Number, or a BinaryOperation node
make_binary ==
    /\ bexp.pc = "source"
    /\ bexp' = IF Folds(bexp.op, bexp.left, bexp.right)
               THEN [bexp EXCEPT !.pc = "parsed", !.folded = TRUE,
                                 !.number = PyArith(bexp.op, bexp.left.val, bexp.right.val)]
               ELSE [bexp EXCEPT !.pc = "parsed"]
    /\ UNCHANGED notArith

\* Interpreter.evaluate of a Number node
evaluate_Number ==
    /\ bexp.pc = "parsed"
    /\ bexp.folded
    /\ bexp' = [bexp EXCEPT !.pc = "done", !.val = bexp.number]
    /\ UNCHANGED notArith

\* Interpreter.evaluate of the BinaryOperation node
evaluate_BinaryOperation_node ==
    /\ bexp.pc = "parsed"
    /\ ~bexp.folded
    /\ LET r == evaluate_BinaryOperation(bexp.op, bexp.left.val, bexp.right.val)
       IN  bexp' = [bexp EXCEPT !.pc = "done", !.err = r.err, !.val = r.val]
    /\ UNCHANGED notArith

NextArith ==
    \/ make_binary
    \/ evaluate_Number
    \/ evaluate_BinaryOperation_node

SpecArith == InitArith /\ [][NextArith]_vars

\* the right operand is an integer, a float or a numeric string, and is zero
RightIsZero ==
    /\ to_num(bexp.right.val) # None
    /\ IsZero(to_num(bexp.right.val))
LeftIsNumeric == to_num(bexp.left.val) # None

\* C13: when the right operand of /, % or // is numerically zero (integer,
\* float or numeric string) and the left one is a number, the evaluation ends
\* with the operator's division-by-zero error and without a value.
C13_DivisionByZeroFails ==
    (bexp.pc = "done" /\ LeftIsNumeric /\ RightIsZero) =>
        (bexp.err = ZeroMessage(bexp.op) /\ bexp.val = Absent)

----------------------------------------------------------------------------
(* SpecNamespace: class Namespace, the runtime namespace, and the operations *)
(* of scripts and of the host that store an attribute                        *)

\* operations on namespaces in one run, search paths the host adds
MaxNsOps == 3
MaxPaths == 2

NsObjects == {"runtime", "N"}
\* the name-mangled attribute `self.__constants`
PrivateConstants == "_Namespace__constants"
BodyNames == {"k", "v"}
AttrNames == {"language_version", "entry_file", "module_paths"} \cup BodyNames
                 \cup {PrivateConstants}
HostPaths == {"/p" \o Digits[i + 1] : i \in 1..MaxPaths}
FilePaths == {"/main.aml"}
DefaultPaths == <<"/cwd", "/cwd/temaune">>

FunctionV == [k |-> "func", v |-> 0]
SetV(names) == [k |-> "set", v |-> 0, names |-> names]
\* the values a script or the host stores
NsValues == {IntV(n) : n \in 0..MaxLit} \cup {ListV(<<>>)}

NoObject == [exists |-> FALSE, attrs |-> [a \in AttrNames |-> Absent]]
\* Namespace.__init__: the attribute map holds the private fields as well
Namespace(consts) ==
    [exists |-> TRUE,
     attrs |-> [a \in AttrNames |-> IF a = PrivateConstants THEN SetV(consts) ELSE Absent]]

\* object.__setattr__(ns, name, value): no check
object_setattr(o, name, value) == [o EXCEPT !.attrs[name] = value]

\* Namespace._add_constant
add_constant(o, name) ==
    [o EXCEPT !.attrs[PrivateConstants] = SetV(@.names \cup {name})]

\* `name in getattr(self, '_Namespace__constants', set())`: "yes", "no", or
\* "TypeError" when the stored object is not a container
InConstants(o, name) ==
    LET c == o.attrs[PrivateConstants]
    IN  IF c.k = "set" THEN (IF name \in c.names THEN "yes" ELSE "no")
        ELSE IF c.k = "list" THEN "no"
        ELSE "TypeError"

IsPrivateName(name) == name = PrivateConstants
IsConstantAttr(o, name) == InConstants(o, name) = "yes"

\* Namespace.__setattr__: the error, and the object afterwards
setattr_error(o, name) ==
    IF IsPrivateName(name) THEN "none"
    ELSE IF IsConstantAttr(o, name) THEN "RuntimeError"
    ELSE IF InConstants(o, name) = "TypeError" THEN "TypeError"
    ELSE "none"
Namespace_setattr(o, name, value) ==
    IF setattr_error(o, name) = "none" THEN object_setattr(o, name, value) ELSE o

\* the constant attributes of an object, as the claim counts them
ConstantAttrs(o) ==
    IF o.exists /\ o.attrs[PrivateConstants].k = "set"
    THEN o.attrs[PrivateConstants].names ELSE {}

PathList(paths) == ListV([i \in 1..Len(paths) |-> StrV(paths[i])])

NsEvent(op, obj, name, err) ==
    [n |-> nsev.n + 1, op |-> op, obj |-> obj, name |-> name, err |-> err]

\* Interpreter.__init__: runtime_ns with its three constants
InitNamespace ==
    /\ EnvStart
    /\ useResolver = FALSE
    /\ ExecIdle
    /\ TaskIdle
    /\ StopIdle
    /\ SymbolIdle
    /\ ImportIdle
    /\ ParserIdle
    /\ ScenarioIdle
    /\ LexIdle
    /\ CliIdle
    /\ BundleIdle
    /\ RunIdle
    /\ ThreadEnvIdle
    /\ ArithIdle
    /\ CallIdle
    /\ ReactiveIdle
    /\ EntryIdle
    /\ ModuleIdle
    /\ search_paths = DefaultPaths
    /\ nspace = [o \in NsObjects |->
                   IF o = "runtime"
                   THEN [exists |-> TRUE,
                         attrs |-> [a \in AttrNames |->
                            CASE a = "language_version" -> StrV("1.1.0")
                              [] a = "entry_file" -> StrV("")
                              [] a = "module_paths" -> ListV(<<>>)
                              [] a = PrivateConstants ->
                                   SetV({"language_version", "entry_file", "module_paths"})
                              [] OTHER -> Absent]]
                   ELSE NoObject]
    /\ nsev = [n |-> 0, op |-> "init", obj |-> "runtime", name |-> "", err |-> "none"]

\* `namespace N { const k = a  var v = b }`: the names of the body are stored
\* with object.__setattr__, the const ones are added to the constants
execute_NamespaceDeclaration(kval, vval) ==
    /\ nsev.n < MaxNsOps
    /\ ~nspace["N"].exists
    /\ nspace' = [nspace EXCEPT !["N"] =
          add_constant(object_setattr(object_setattr(Namespace({}), "k", kval),
                                      "v", vval), "k")]
    /\ nsev' = NsEvent("namespace", "N", "", "none")
    /\ UNCHANGED search_paths
    /\ UNCHANGED notNamespace

\* the script's `obj.attr = value`: execute_Assignment, setattr(obj, attr, value)
attribute_assignment(obj, name, value) ==
    /\ nsev.n < MaxNsOps
    /\ nspace[obj].exists
    /\ nspace' = [nspace EXCEPT ![obj] = Namespace_setattr(@, name, value)]
    /\ nsev' = NsEvent("assign", obj, name, setattr_error(nspace[obj], name))
    /\ UNCHANGED search_paths
    /\ UNCHANGED notNamespace

\* `func obj.name() { }`: execute_FunctionDeclaration with an ns_path
dotted_function_declaration(obj, name) ==
    /\ nsev.n < MaxNsOps
    /\ nspace[obj].exists
    /\ nspace' = [nspace EXCEPT ![obj] = Namespace_setattr(@, name, FunctionV)]
    /\ nsev' = NsEvent("func", obj, name, setattr_error(nspace[obj], name))
    /\ UNCHANGED search_paths
    /\ UNCHANGED notNamespace

\* AMLRuntime.set_namespace_var
set_namespace_var(obj, name, value) ==
    /\ nsev.n < MaxNsOps
    /\ nspace[obj].exists
    /\ nspace' = [nspace EXCEPT ![obj] = Namespace_setattr(@, name, value)]
    /\ nsev' = NsEvent("set_namespace_var", obj, name, setattr_error(nspace[obj], name))
    /\ UNCHANGED search_paths
    /\ UNCHANGED notNamespace

\* the head of Interpreter.interpret(program, file_path = path)
interpret_head(path) ==
    /\ nsev.n < MaxNsOps
    /\ nspace' = [nspace EXCEPT !["runtime"] =
          object_setattr(object_setattr(@, "entry_file", StrV(path)),
                         "module_paths", PathList(search_paths))]
    /\ nsev' = NsEvent("interpret", "runtime", "entry_file", "none")
    /\ UNCHANGED search_paths
    /\ UNCHANGED notNamespace

\* Interpreter.add_aml_search_path
add_aml_search_path(path) ==
    /\ nsev.n < MaxNsOps
    /\ IF \E i \in 1..Len(search_paths) : search_paths[i] = path
       THEN UNCHANGED <<search_paths, nspace>>
       ELSE /\ search_paths' = Append(search_paths, path)
            /\ nspace' = [nspace EXCEPT !["runtime"] =
                  object_setattr(@, "module_paths", PathList(search_paths'))]
    /\ nsev' = NsEvent("add_aml_search_path", "runtime", "module_paths", "none")
    /\ UNCHANGED notNamespace

NextNamespace ==
    \/ \E a, b \in NsValues : execute_NamespaceDeclaration(a, b)
    \/ \E o \in NsObjects, a \in AttrNames, w \in NsValues : attribute_assignment(o, a, w)
    \/ \E o \in NsObjects, a \in AttrNames : dotted_function_declaration(o, a)
    \/ \E o \in NsObjects, a \in AttrNames, w \in NsValues : set_namespace_var(o, a, w)
    \/ \E p \in FilePaths : interpret_head(p)
    \/ \E p \in HostPaths : add_aml_search_path(p)

SpecNamespace == InitNamespace /\ [][NextNamespace]_vars

\* C15: once a name is a constant attribute of a Namespace, no operation
\* changes the value of that attribute: every step leaves the value of every
\* constant attribute of every Namespace object as it was.
C15_ConstantAttributeKept ==
    [][\A o \in NsObjects : \A a \in ConstantAttrs(nspace[o]) :
          nspace'[o].attrs[a] = nspace[o].attrs[a]]_vars

----------------------------------------------------------------------------
(* SpecThreadEnv: the property Interpreter.environment (threading.local)     *)
(* under the interleaving of the main thread with spawned threads            *)

\* threads of a run (thread 1 is the main thread), nesting of a thread's blocks
MaxThreads == 2
MaxNest == 2
\* Environment objects created in a run
MaxEnvs == 4

Threads == 1..MaxThreads
\* global_env is the first Environment
GlobalEnvId == 1
\* what sets the current environment and restores it in a finally clause
EnterKinds == {"call", "block", "namespace", "module", "comprehension"}

\* the getter: the thread's own pointer; an unset pointer is set to global_env
environment_get(th, t) ==
    IF th[t].local = 0 THEN GlobalEnvId ELSE th[t].local
after_get(th, t) ==
    IF th[t].local = 0 THEN [th EXCEPT ![t].local = GlobalEnvId] ELSE th

\* the setter: `self._env_local.environment = env`
environment_set_Shared(th, t, env) ==
    [u \in DOMAIN th |-> [th[u] EXCEPT !.local = env]]
environment_set(th, t, env) ==
    [th EXCEPT ![t].local = env]

\* Interpreter.__init__ runs in the main thread: `self.environment = self.global_env`
InitThreadEnv ==
    /\ EnvStart
    /\ useResolver = FALSE
    /\ ExecIdle
    /\ TaskIdle
    /\ StopIdle
    /\ SymbolIdle
    /\ ImportIdle
    /\ ParserIdle
    /\ ScenarioIdle
    /\ LexIdle
    /\ CliIdle
    /\ BundleIdle
    /\ RunIdle
    /\ NamespaceIdle
    /\ ArithIdle
    /\ CallIdle
    /\ ReactiveIdle
    /\ EntryIdle
    /\ ModuleIdle
    /\ thr = [t \in Threads |->
                [started |-> t = 1, local |-> IF t = 1 THEN GlobalEnvId ELSE 0,
                 saved |-> <<>>]]
    /\ nenv = 1
    /\ tev = [thread |-> 1, op |-> "init", env |-> GlobalEnvId]

\* threading.Thread(target=_run_callable, ...).start() in thread t
thread_start(t, u) ==
    /\ thr[t].started
    /\ ~thr[u].started
    /\ thr' = [thr EXCEPT ![u].started = TRUE]
    /\ tev' = [thread |-> t, op |-> "spawn", env |-> environment_get(thr, t)]
    /\ UNCHANGED nenv
    /\ UNCHANGED notThreadEnv

\* execute_block and its like, up to the body: previous_env = self.environment,
\* then self.environment = the new Environment
enter(t, kind) ==
    /\ thr[t].started
    /\ Len(thr[t].saved) < MaxNest
    /\ nenv < MaxEnvs
    /\ LET previous_env == environment_get(thr, t)
           th == [after_get(thr, t) EXCEPT ![t].saved = Append(@, previous_env)]
       IN  thr' = environment_set(th, t, nenv + 1)
    /\ nenv' = nenv + 1
    /\ tev' = [thread |-> t, op |-> kind, env |-> nenv + 1]
    /\ UNCHANGED notThreadEnv

\* the finally clause: self.environment = previous_env
leave(t) ==
    /\ thr[t].started
    /\ thr[t].saved # <<>>
    /\ LET n == Len(thr[t].saved)
           th == [thr EXCEPT ![t].saved = SubSeq(@, 1, n - 1)]
       IN  /\ thr' = environment_set(th, t, thr[t].saved[n])
           /\ tev' = [thread |-> t, op |-> "leave", env |-> thr[t].saved[n]]
    /\ UNCHANGED nenv
    /\ UNCHANGED notThreadEnv

\* the evaluation of a name in thread t: self.environment.get(name)
evaluate_name(t) ==
    /\ thr[t].started
    /\ tev.op # "evaluate" \/ tev.thread # t
    /\ thr' = after_get(thr, t)
    /\ tev' = [thread |-> t, op |-> "evaluate", env |-> environment_get(thr, t)]
    /\ UNCHANGED nenv
    /\ UNCHANGED notThreadEnv

NextThreadEnv ==
    \/ \E t, u \in Threads : thread_start(t, u)
    \/ \E t \in Threads, kind \in EnterKinds : enter(t, kind)
    \/ \E t \in Threads : leave(t)
    \/ \E t \in Threads : evaluate_name(t)

SpecThreadEnv == InitThreadEnv /\ [][NextThreadEnv]_vars

\* the environment in which thread t evaluates names
EvaluatesIn(th, t) == IF th[t].local = 0 THEN GlobalEnvId ELSE th[t].local

\* C16: a step of one thread (entering or leaving a call, block, namespace
\* body, module or comprehension, starting a thread, evaluating a name) never
\* changes the environment in which another thread evaluates names, and a
\* thread whose pointer is unset evaluates in the global environment.
C16_ThreadLocalEnvironment ==
    [][/\ \A u \in Threads : u # tev'.thread => EvaluatesIn(thr', u) = EvaluatesIn(thr, u)
       /\ (tev'.op = "evaluate" /\ thr[tev'.thread].local = 0) => tev'.env = GlobalEnvId]_vars

\* two threads are inside blocks of their own, and the main thread has just
\* left a block while the other thread stayed in its environment
C16_Witness ==
    /\ tev.op = "leave"
    /\ tev.thread = 1
    /\ thr[1].local > GlobalEnvId
    /\ thr[2].local > GlobalEnvId
    /\ thr[2].local # thr[1].local

----------------------------------------------------------------------------
(* SpecRun: AMLRuntime.run_source, run_file, their _async forms, and stop()  *)
(* called by another thread                                                  *)

\* top-level statements of the program that is run
MaxRunStmts == 3

RunModes == {"source", "file"}
RunVias == {"direct", "async"}

\* a runtime after start(): no run yet, the flag reset, the lock free
InitRun ==
    /\ EnvStart
    /\ useResolver = FALSE
    /\ ExecIdle
    /\ TaskIdle
    /\ StopIdle
    /\ SymbolIdle
    /\ ImportIdle
    /\ ParserIdle
    /\ ScenarioIdle
    /\ LexIdle
    /\ CliIdle
    /\ BundleIdle
    /\ ThreadEnvIdle
    /\ NamespaceIdle
    /\ ArithIdle
    /\ CallIdle
    /\ ReactiveIdle
    /\ EntryIdle
    /\ ModuleIdle
    /\ \E len \in 1..MaxRunStmts :
          runSt = [pc |-> "idle", mode |-> "source", via |-> "direct", len |-> len,
                i |-> 0, lock |-> "free", cancelled |-> FALSE,
                stopped |-> FALSE, lost |-> FALSE]

\* the host calls run_source / run_file, or run_source_async / run_file_async
\* (which makes the thread and starts it)
run_call(mode, via) ==
    /\ runSt.pc = "idle"
    /\ runSt' = [runSt EXCEPT !.pc = IF via = "async" THEN "thread" ELSE "called",
                        !.mode = mode, !.via = via]
    /\ UNCHANGED notRun

\* _worker: the new thread calls run_source / run_file
worker_begin ==
    /\ runSt.pc = "thread"
    /\ runSt' = [runSt EXCEPT !.pc = "called"]
    /\ UNCHANGED notRun

\* `with self._lock:` and the lexing and parsing under the lock
run_lock ==
    /\ runSt.pc = "called"
    /\ runSt.lock = "free"
    /\ runSt' = [runSt EXCEPT !.pc = "locked", !.lock = "run"]
    /\ UNCHANGED notRun

\* the flag that reset_cancel leaves
ResetFlag(flag) == FALSE

\* run_source: reset_cancel() as the last statement under the lock;
\* run_file: the lock is released first
run_unlock ==
    /\ runSt.pc = "locked"
    /\ runSt' = IF runSt.mode = "source"
             THEN [runSt EXCEPT !.pc = "loop", !.lock = "free",
                             !.cancelled = ResetFlag(@),
                             !.lost = runSt.cancelled /\ ~ResetFlag(runSt.cancelled)]
             ELSE [runSt EXCEPT !.pc = "unlocked", !.lock = "free"]
    /\ UNCHANGED notRun

\* run_file: reset_cancel() outside the lock, before interpret()
run_file_reset ==
    /\ runSt.pc = "unlocked"
    /\ runSt' = [runSt EXCEPT !.pc = "loop", !.cancelled = ResetFlag(@),
                        !.lost = runSt.cancelled /\ ~ResetFlag(runSt.cancelled)]
    /\ UNCHANGED notRun

\* interpret(): `if self.cancelled: return`, else the next statement starts
interpret_next ==
    /\ runSt.pc = "loop"
    /\ runSt' = IF runSt.cancelled \/ runSt.i = runSt.len
             THEN [runSt EXCEPT !.pc = "returned"]
             ELSE [runSt EXCEPT !.pc = "exec", !.i = @ + 1]
    /\ UNCHANGED notRun

\* the statement in progress ends
interpret_executed ==
    /\ runSt.pc = "exec"
    /\ runSt' = [runSt EXCEPT !.pc = "loop"]
    /\ UNCHANGED notRun

\* stop() in another thread: `with self._lock: self.interpreter.cancel()`
stop ==
    /\ runSt.pc \notin {"idle", "returned"}
    /\ ~runSt.stopped
    /\ runSt.lock = "free"
    /\ runSt' = [runSt EXCEPT !.cancelled = TRUE, !.stopped = TRUE]
    /\ UNCHANGED notRun

NextRun ==
    \/ \E mode \in RunModes, via \in RunVias : run_call(mode, via)
    \/ worker_begin
    \/ run_lock
    \/ run_unlock
    \/ run_file_reset
    \/ interpret_next
    \/ interpret_executed
    \/ stop

SpecRun == InitRun /\ [][NextRun]_vars

\* C17: a stop() issued by another thread at any time after the run call is
\* never lost: once stop() has returned, the run starts no new top-level
\* statement.
C17_StopNeverLost ==
    [][runSt.stopped => runSt'.i = runSt.i]_vars

----------------------------------------------------------------------------
(* SpecBundle: AMLCompiler.ast_to_dict, the JSON text, Interpreter.dict_to_ast *)
(* and Function.call on the source AST and on the decoded AST                *)

\* parameters of the declared function
MaxBundleParams == 2

\* Python objects: str, int, None, tuple, list, dict, Enum member, AST node
StrOf(s) == [k |-> "str", s |-> s]
IntOf(n) == [k |-> "int", n |-> n]
NoneObj == [k |-> "none"]
TupleOf(items) == [k |-> "tuple", items |-> items]
ListOf(items) == [k |-> "list", items |-> items]
DictOf(m) == [k |-> "dict", m |-> m]
EnumOf(cls, name) == [k |-> "enum", cls |-> cls, name |-> name]
AstNode(t, fields) == [k |-> "ast", t |-> t, f |-> fields]

\* AST.__init__ without a token
NumberNode(n) ==
    AstNode("Number", [value |-> IntOf(n), token |-> NoneObj,
                       line |-> IntOf(0), column |-> IntOf(0)])
BinaryOperationNode(l, op, r) ==
    AstNode("BinaryOperation", [left |-> l, op |-> EnumOf("TokenType", op), right |-> r,
                                token |-> NoneObj, line |-> IntOf(0), column |-> IntOf(0)])
ReturnNode(e) ==
    AstNode("ReturnStatement", [value |-> e, token |-> NoneObj,
                                line |-> IntOf(0), column |-> IntOf(0)])
FunctionDeclarationNode(params, body) ==
    AstNode("FunctionDeclaration",
            [name |-> StrOf("f"), params |-> ListOf(params), body |-> ListOf(body),
             ns_path |-> ListOf(<<>>), token |-> NoneObj,
             line |-> IntOf(0), column |-> IntOf(0)])

\* Parser: `params.append(name)` or `params.append((name, default_expr))`
BundleParamSpecs ==
    {StrOf("a"), TupleOf(<<StrOf("b"), NumberNode(1)>>)}
BundleParamLists ==
    UNION {[1..n -> BundleParamSpecs] : n \in 0..MaxBundleParams}
BundleOps == {"PLUS", "MINUS"}
BundleDeclarations ==
    {FunctionDeclarationNode(ps, <<ReturnNode(BinaryOperationNode(NumberNode(1), op, NumberNode(1)))>>) :
        ps \in BundleParamLists, op \in BundleOps}

OmittedAttrs == {"token", "line", "column"}

\* AMLCompiler.ast_to_dict without obfuscation
RECURSIVE ast_to_dict(_)
ast_to_dict(node) ==
    CASE node.k \in {"none", "int", "str"} -> node
      [] node.k = "enum" -> DictOf([a \in {"_e", "v"} |->
                                IF a = "_e" THEN StrOf(node.cls) ELSE StrOf(node.name)])
      [] node.k \in {"list", "tuple"} ->
            ListOf([i \in 1..Len(node.items) |-> ast_to_dict(node.items[i])])
      [] node.k = "ast" ->
            DictOf([a \in ((DOMAIN node.f) \ OmittedAttrs) \cup {"_t"} |->
                      IF a = "_t" THEN StrOf(node.t) ELSE ast_to_dict(node.f[a])])
      [] OTHER -> StrOf("str(node)")

\* json.loads(json.dumps(data)): arrays come back as lists, objects as dicts
RECURSIVE json_roundtrip(_)
json_roundtrip(data) ==
    CASE data.k \in {"list", "tuple"} ->
            ListOf([i \in 1..Len(data.items) |-> json_roundtrip(data.items[i])])
      [] data.k = "dict" -> DictOf([a \in DOMAIN data.m |-> json_roundtrip(data.m[a])])
      [] OTHER -> data

\* Interpreter.dict_to_ast
RECURSIVE dict_to_ast(_)
dict_to_ast(data) ==
    CASE data.k \in {"none", "int", "str"} -> data
      [] data.k = "list" ->
            ListOf([i \in 1..Len(data.items) |-> dict_to_ast(data.items[i])])
      [] data.k = "dict" ->
            IF "_e" \in DOMAIN data.m
            THEN (IF data.m["_e"] = StrOf("TokenType")
                  THEN EnumOf("TokenType", data.m["v"].s) ELSE data.m["v"])
            ELSE IF "_t" \notin DOMAIN data.m THEN data
            ELSE AstNode(data.m["_t"].s,
                         [a \in ((DOMAIN data.m) \ {"_t"}) \cup OmittedAttrs |->
                            IF a \in DOMAIN data.m /\ a # "_t" THEN dict_to_ast(data.m[a])
                            ELSE IF a = "token" THEN NoneObj ELSE IntOf(0)])
      [] OTHER -> data

\* `isinstance(s, tuple)` in Function.__init__ and Function.call
IsParamWithDefault(s) == s.k = "tuple"

\* `p if isinstance(p, str) else p[0]`
ParamName(p) == IF p.k = "str" THEN p.s ELSE p.items[1].s

\* the BinaryOperation of the body, evaluated
BodyValue(decl) ==
    LET e == decl.f.body.items[1].f.value
    IN  IF e.f.op = EnumOf("TokenType", "PLUS") THEN e.f.left.f.value.n + e.f.right.f.value.n
        ELSE IF e.f.op = EnumOf("TokenType", "MINUS")
        THEN e.f.left.f.value.n - e.f.right.f.value.n
        ELSE -1

\* Function(declaration, env).call(interpreter, arguments) with nargs positional
\* arguments (the i-th argument is the integer 10 + i) and no keyword argument
FunctionCallOutcome(decl, nargs) ==
    LET specs == decl.f.params.items
        missing == {i \in 1..Len(specs) : i > nargs /\ ~IsParamWithDefault(specs[i])}
    IN  IF missing # {}
        THEN [err |-> "Missing required argument",
              name |-> ParamName(specs[CHOOSE i \in missing : \A j \in missing : i <= j]),
              bound |-> <<>>, ret |-> 0]
        ELSE [err |-> "none", name |-> "",
              bound |-> [i \in 1..Len(specs) |->
                           [name |-> ParamName(specs[i]),
                            value |-> IF i <= nargs THEN 10 + i
                                      ELSE specs[i].items[2].f.value.n]],
              ret |-> BodyValue(decl)]

NoOutcome == [err |-> "not called", name |-> "", bound |-> <<>>, ret |-> 0]

InitBundle ==
    /\ EnvStart
    /\ useResolver = FALSE
    /\ ExecIdle
    /\ TaskIdle
    /\ StopIdle
    /\ SymbolIdle
    /\ ImportIdle
    /\ ParserIdle
    /\ ScenarioIdle
    /\ LexIdle
    /\ CliIdle
    /\ RunIdle
    /\ ThreadEnvIdle
    /\ NamespaceIdle
    /\ ArithIdle
    /\ CallIdle
    /\ ReactiveIdle
    /\ EntryIdle
    /\ ModuleIdle
    /\ \E decl \in BundleDeclarations, nargs \in 0..MaxBundleParams :
          bd = [pc |-> "parsed", ast |-> decl, nargs |-> nargs,
                data |-> NoneObj, decoded |-> NoneObj,
                source |-> NoOutcome, bundled |-> NoOutcome]

\* the source run: the function is declared from the parsed AST and called
call_source ==
    /\ bd.pc = "parsed"
    /\ bd' = [bd EXCEPT !.pc = "ran", !.source = FunctionCallOutcome(bd.ast, bd.nargs)]
    /\ UNCHANGED notBundle

\* AMLCompiler.compile / save: ast_to_dict, json.dumps
compile ==
    /\ bd.pc = "ran"
    /\ bd' = [bd EXCEPT !.pc = "compiled", !.data = ast_to_dict(bd.ast)]
    /\ UNCHANGED notBundle

\* Interpreter.load_caml and dict_to_ast of the entry module
load_bundle ==
    /\ bd.pc = "compiled"
    /\ bd' = [bd EXCEPT !.pc = "loaded", !.decoded = dict_to_ast(json_roundtrip(bd.data))]
    /\ UNCHANGED notBundle

\* the bundled run: the function is declared from the decoded AST and called
call_bundled ==
    /\ bd.pc = "loaded"
    /\ bd' = [bd EXCEPT !.pc = "done", !.bundled = FunctionCallOutcome(bd.decoded, bd.nargs)]
    /\ UNCHANGED notBundle

NextBundle ==
    \/ call_source
    \/ compile
    \/ load_bundle
    \/ call_bundled

SpecBundle == InitBundle /\ [][NextBundle]_vars

\* C19: the AST decoded from the bundle encoding executes as the parsed AST
\* does: the call of the declared function ends in both runs with the same
\* error or the same bindings and value, a default being applied to an
\* omitted argument in the bundled run as in the source run.
C19_BundleRoundTrip ==
    bd.pc = "done" => bd.bundled = bd.source

----------------------------------------------------------------------------
(* SpecCli: tests/run_tests.py run_single_test, aml.py run_file,             *)
(* AMLRuntime.run_file and the statement loop of Interpreter.interpret       *)

\* top-level statements of the script
MaxCliStmts == 3

\* a statement that ends normally, one that prints a line with "Fail:", and
\* one that raises an error no handler of the script catches
CliStmts == {"plain", "print_fail", "raise"}
CliPrograms == UNION {[1..n -> CliStmts] : n \in 1..MaxCliStmts}

InitCli ==
    /\ EnvStart
    /\ useResolver = FALSE
    /\ ExecIdle
    /\ TaskIdle
    /\ StopIdle
    /\ SymbolIdle
    /\ ImportIdle
    /\ ParserIdle
    /\ ScenarioIdle
    /\ LexIdle
    /\ BundleIdle
    /\ RunIdle
    /\ ThreadEnvIdle
    /\ NamespaceIdle
    /\ ArithIdle
    /\ CallIdle
    /\ ReactiveIdle
    /\ EntryIdle
    /\ ModuleIdle
    /\ \E prog \in CliPrograms, parses \in BOOLEAN :
          cli = [pc |-> "start", prog |-> prog, parses |-> parses, i |-> 0,
                 ran |-> 0, errorAt |-> 0,
                 stdoutFail |-> FALSE, propagated |-> FALSE,
                 returncode |-> -1, status |-> "none"]

\* AMLRuntime.run_file up to interpret(): a file that does not parse raises
\* RuntimeError out of run_file
runtime_run_file ==
    /\ cli.pc = "start"
    /\ cli' = IF cli.parses THEN [cli EXCEPT !.pc = "interpret"]
              ELSE [cli EXCEPT !.pc = "exit", !.propagated = TRUE]
    /\ UNCHANGED notCli

\* what interpret() does with an Exception of a statement: it is printed with
\* its context and interpret() returns
InterpretPropagates == FALSE

\* one turn of `for statement in program.statements:` in interpret()
interpret_step ==
    /\ cli.pc = "interpret"
    /\ IF cli.i = Len(cli.prog)
       THEN cli' = [cli EXCEPT !.pc = "exit"]
       ELSE LET s == cli.prog[cli.i + 1]
            IN  cli' = IF s = "raise"
                       THEN [cli EXCEPT !.pc = "exit", !.i = @ + 1, !.ran = @ + 1,
                                        !.errorAt = cli.i + 1,
                                        !.propagated = InterpretPropagates]
                       ELSE [cli EXCEPT !.i = @ + 1, !.ran = @ + 1,
                                        !.stdoutFail = @ \/ s = "print_fail"]
    /\ UNCHANGED notCli

\* aml.py run_file: `except Exception: sys.exit(1)`, else main() returns and
\* the process ends with status 0
aml_exit ==
    /\ cli.pc = "exit"
    /\ cli' = [cli EXCEPT !.pc = "exited",
                          !.returncode = IF cli.propagated THEN 1 ELSE 0]
    /\ UNCHANGED notCli

\* run_single_test: the status from the return code and the output
TestStatus(returncode, stdoutFail) ==
    IF returncode = 0 THEN (IF stdoutFail THEN "FAILED" ELSE "PASSED") ELSE "ERROR"

run_single_test ==
    /\ cli.pc = "exited"
    /\ cli' = [cli EXCEPT !.pc = "classified",
                          !.status = TestStatus(cli.returncode, cli.stdoutFail)]
    /\ UNCHANGED notCli

NextCli ==
    \/ runtime_run_file
    \/ interpret_step
    \/ aml_exit
    \/ run_single_test

SpecCli == InitCli /\ [][NextCli]_vars

\* C20: when a script run by `aml.py <file>` hits an unhandled runtime error
\* at top level, no later top-level statement runs, the process ends with a
\* non-zero exit status and the test runner gives the script the status ERROR.
C20_ErrorExitsNonZero ==
    (cli.pc = "classified" /\ cli.errorAt > 0) =>
        /\ cli.ran = cli.errorAt
        /\ cli.returncode # 0
        /\ cli.status = "ERROR"

----------------------------------------------------------------------------
(* SpecLexer: class Lexer on texts over a small alphabet                     *)

\* length of the source text
MaxText == 4

LexAlphabet == {"n", "1", "-", " ", "\n"}
LexTexts == UNION {[1..n -> LexAlphabet] : n \in 0..MaxText}

\* str.isalpha, str.isdigit, str.isalnum or '_', and None at the end of input
NoChar == ""
IsAlpha(c) == c = "n"
IsDigit(c) == c = "1"
IsWord(c) == IsAlpha(c) \/ IsDigit(c)

\* Lexer.__init__
Lexer(text) == [text |-> text, pos |-> 0, line |-> 1, column |-> 1]
current_char(l) == IF l.pos >= Len(l.text) THEN NoChar ELSE l.text[l.pos + 1]
peek(l) == IF l.pos + 1 >= Len(l.text) THEN NoChar ELSE l.text[l.pos + 2]

\* the column advance() leaves when the new current character is a newline
NewlineColumn == 0

\* Lexer.advance
advance(l) ==
    LET p == l.pos + 1
    IN  IF p < Len(l.text) /\ l.text[p + 1] = "\n"
        THEN [l EXCEPT !.pos = p, !.line = @ + 1, !.column = NewlineColumn]
        ELSE [l EXCEPT !.pos = p, !.column = @ + 1]

Token(type, text, line, column, pos) ==
    [type |-> type, text |-> text, line |-> line, column |-> column, pos |-> pos]

\* `while self.current_char is not None and <test>: self.advance()`
RECURSIVE ScanWhile(_, _)
ScanWhile(l, chars) ==
    IF current_char(l) \in chars THEN ScanWhile(advance(l), chars) ELSE l

\* Lexer.number: the sign, when the current character is '-', then the digits
number(l) ==
    LET signed == IF current_char(l) = "-" THEN advance(l) ELSE l
        end == ScanWhile(signed, {"1"})
    IN  [lx |-> end,
         tok |-> Token("NUMBER", SubSeq(l.text, l.pos + 1, end.pos), end.line, l.column, l.pos)]

\* Lexer.identifier
identifier(l) ==
    LET end == ScanWhile(l, {"n", "1"})
    IN  [lx |-> end,
         tok |-> Token("IDENTIFIER", SubSeq(l.text, l.pos + 1, end.pos), end.line, l.column, l.pos)]

\* `self.current_char.isdigit() or (self.current_char == '-' and self.peek()
\* and self.peek().isdigit())`
StartsNumber(l) ==
    IsDigit(current_char(l)) \/ (current_char(l) = "-" /\ IsDigit(peek(l)))

\* Lexer.get_next_token
RECURSIVE get_next_token(_)
get_next_token(l) ==
    LET c == current_char(l)
    IN  CASE c = NoChar -> [lx |-> l, tok |-> Token("EOF", <<>>, l.line, l.column, l.pos)]
          [] c = " " -> get_next_token(ScanWhile(l, {" "}))
          [] c = "\n" -> [lx |-> advance(l),
                          tok |-> Token("NEWLINE", <<"\n">>, l.line, l.column, l.pos)]
          [] IsAlpha(c) -> identifier(l)
          [] c # NoChar /\ c # " " /\ c # "\n" /\ ~IsAlpha(c) /\ StartsNumber(l) -> number(l)
          [] OTHER -> [lx |-> advance(l),
                       tok |-> Token("MINUS", <<"-">>, l.line, l.column, l.pos)]

InitLexer ==
    /\ EnvStart
    /\ useResolver = FALSE
    /\ ExecIdle
    /\ TaskIdle
    /\ StopIdle
    /\ SymbolIdle
    /\ ImportIdle
    /\ ParserIdle
    /\ ScenarioIdle
    /\ CallIdle
    /\ ReactiveIdle
    /\ EntryIdle
    /\ ModuleIdle
    /\ ArithIdle
    /\ NamespaceIdle
    /\ ThreadEnvIdle
    /\ RunIdle
    /\ BundleIdle
    /\ CliIdle
    /\ \E text \in LexTexts :
          lx = [pc |-> "lexing", l |-> Lexer(text), tokens |-> <<>>]

\* one turn of the loop of Lexer.tokenize: the next token is appended, the
\* EOF token ends the loop
tokenize_step ==
    /\ lx.pc = "lexing"
    /\ LET r == get_next_token(lx.l)
       IN  lx' = [pc |-> IF r.tok.type = "EOF" THEN "done" ELSE "lexing",
                  l |-> r.lx, tokens |-> Append(lx.tokens, r.tok)]
    /\ UNCHANGED notLex

NextLexer ==
    \/ tokenize_step

SpecLexer == InitLexer /\ [][NextLexer]_vars

\* the positions of the text where a '-' directly follows an operand and
\* directly precedes a digit, as in n-1
BinaryMinusPositions(text) ==
    {i \in 2..(Len(text) - 1) :
        text[i] = "-" /\ IsWord(text[i - 1]) /\ IsDigit(text[i + 1])}

\* C21: in the token list of a text, a '-' that directly follows an operand
\* and directly precedes a digit (n-1, n-2 of the Fibonacci scenario) is a
\* MINUS token of its own, the binary operator, and not the sign of a number.
C21_BinaryMinus ==
    lx.pc = "done" =>
        \A i \in BinaryMinusPositions(lx.l.text) :
            \E k \in 1..Len(lx.tokens) :
                lx.tokens[k].type = "MINUS" /\ lx.tokens[k].pos = i - 1

\* C24: every token produced by tokenize(), NEWLINE and EOF included, has
\* line >= 1 and column >= 1.
C24_TokenPositions ==
    \A k \in 1..Len(lx.tokens) :
        lx.tokens[k].line >= 1 /\ lx.tokens[k].column >= 1

----------------------------------------------------------------------------
(* SpecScenario: func f(a, b = 10) { return a + b + len(args) }              *)

\* positional arguments of a call, each one of 1..MaxPosArgs
MaxPosArgs == 4

ScenarioParams == <<NoDefault, [k |-> "lit", v |-> 10]>>
ScenarioPos == UNION {[1..n -> {IntV(v) : v \in 1..MaxPosArgs}] : n \in 0..MaxPosArgs}
\* no keyword argument, or b = 2
ScenarioKw == {<<>>, <<[key |-> "b", val |-> IntV(2)]>>}

\* `environment.define('args', list(arguments))`
ArgsList_Extras(arguments, names) ==
    IF Len(arguments) > Len(names)
    THEN SubSeq(arguments, Len(names) + 1, Len(arguments)) ELSE <<>>
ArgsList(arguments, names) == arguments

\* `for key, val in kwargs.items()` with the values of the call
RECURSIVE BindKeywords(_, _, _, _)
BindKeywords(e, names, kw, j) ==
    IF j > Len(kw) THEN [err |-> "none", env |-> e]
    ELSE IF kw[j].key \notin Range(names)
    THEN [err |-> "UnknownKeyword", env |-> e]
    ELSE LET idx == IndexOf(names, kw[j].key) - 1
         IN IF IsFilled(Environment_get_at(e, idx))
            THEN [err |-> "DuplicateKeyword", env |-> e]
            ELSE BindKeywords(Environment_define(e, kw[j].key, kw[j].val, idx, FALSE),
                              names, kw, j + 1)

\* Function.call of f up to the body
Scenario_bind(P, kw) ==
    LET names == param_names(ScenarioParams)
        e0 == Environment(1, Len(names))
        e1 == BindPositional(e0, names, P, 1)
        e2 == FillMissing(e1, names, Len(P) + 1)
        k == BindKeywords(e2, names, kw, 1)
        e3 == Environment_define(k.env, "args", ListV(ArgsList(P, names)), -1, FALSE)
    IN IF k.err # "none" THEN k ELSE ApplyDefaults(e3, ScenarioParams, 1, envs, cur)

\* the global `len`
builtin_len(val) == IntV(Len(val.l))

\* `return a + b + len(args)` in the call environment
Scenario_body(e) ==
    IntV(e.values["a"].v + e.values["b"].v + builtin_len(e.values["args"]).v)

InitScenario ==
    /\ EnvStart
    /\ useResolver = FALSE
    /\ ExecIdle
    /\ TaskIdle
    /\ StopIdle
    /\ SymbolIdle
    /\ ImportIdle
    /\ ParserIdle
    /\ CallIdle
    /\ ReactiveIdle
    /\ EntryIdle
    /\ ModuleIdle
    /\ ArithIdle
    /\ NamespaceIdle
    /\ ThreadEnvIdle
    /\ RunIdle
    /\ BundleIdle
    /\ CliIdle
    /\ LexIdle
    /\ \E P \in ScenarioPos, kw \in ScenarioKw :
          scn = [pc |-> "called", P |-> P, kw |-> kw, err |-> "none",
                env |-> Environment(1, 0), ret |-> None]

\* Function.call: the arguments are bound, or the call fails
Scenario_call ==
    /\ scn.pc = "called"
    /\ LET r == Scenario_bind(scn.P, scn.kw)
       IN scn' = [scn EXCEPT !.pc = IF r.err = "none" THEN "bound" ELSE "failed",
                           !.err = r.err, !.env = r.env]
    /\ UNCHANGED notScenario

\* execute_block(self.declaration.body, environment): the return statement
Scenario_return ==
    /\ scn.pc = "bound"
    /\ scn' = [scn EXCEPT !.pc = "returned", !.ret = Scenario_body(scn.env)]
    /\ UNCHANGED notScenario

NextScenario ==
    \/ Scenario_call
    \/ Scenario_return

SpecScenario == InitScenario /\ [][NextScenario]_vars

ScenarioReturned(P, kw) == scn.pc = "returned" /\ scn.P = P /\ scn.kw = kw

----------------------------------------------------------------------------
(* C22 *)

\* C22 as stated: f(1), f(1, b = 2) and f(1, 2, 3, 4) return 11, 3 and 7
C22_ScenarioOutputs ==
    /\ ScenarioReturned(<<IntV(1)>>, <<>>) => scn.ret = IntV(11)
    /\ ScenarioReturned(<<IntV(1)>>, <<[key |-> "b", val |-> IntV(2)]>>)
          => scn.ret = IntV(3)
    /\ ScenarioReturned(<<IntV(1), IntV(2), IntV(3), IntV(4)>>, <<>>)
          => scn.ret = IntV(7)

\* C22: `args` holds every positional argument of the call, so f(1),
\* f(1, b = 2) and f(1, 2, 3, 4) return 12, 4 and 7
C22_ArgsCountsAll ==
    /\ ScenarioReturned(<<IntV(1)>>, <<>>) => scn.ret = IntV(12)
    /\ ScenarioReturned(<<IntV(1)>>, <<[key |-> "b", val |-> IntV(2)]>>)
          => scn.ret = IntV(4)
    /\ ScenarioReturned(<<IntV(1), IntV(2), IntV(3), IntV(4)>>, <<>>)
          => scn.ret = IntV(7)

\* f(1, b = 2) has returned 4
C22_Witness ==
    /\ ScenarioReturned(<<IntV(1)>>, <<[key |-> "b", val |-> IntV(2)]>>)
    /\ scn.ret = IntV(4)

----------------------------------------------------------------------------
(* SpecParser: the expression rules of class Parser                          *)

\* operators of one expression
MaxParseSteps == 2

\* AST nodes: the literals, Identifier, BinaryOperation and UnaryOperation
Node(type, op, val, kids) == [type |-> type, op |-> op, val |-> val, kids |-> kids]
\* the value of a node: the number n (a float when f), the text s or the truth b
NodeValue(n, f, s, b) == [n |-> n, f |-> f, s |-> s, b |-> b]
NoValue == NodeValue(0, FALSE, <<>>, FALSE)
Number(n, f) == Node("Number", "", NodeValue(n, f, <<>>, FALSE), <<>>)
String(s) == Node("String", "", NodeValue(0, FALSE, s, FALSE), <<>>)
Boolean(b) == Node("Boolean", "", NodeValue(0, FALSE, <<>>, b), <<>>)
Null == Node("Null", "", NoValue, <<>>)
Identifier(name) == Node("Identifier", "", NodeValue(0, FALSE, name, FALSE), <<>>)
BinaryOperation(left, op, right) == Node("BinaryOperation", op, NoValue, <<left, right>>)
UnaryOperation(op, expr) == Node("UnaryOperation", op, NoValue, <<expr>>)
NoFold == Node("None", "", NoValue, <<>>)

\* Parser.primary: the literal and identifier tokens of the source text
Primaries ==
    {Number(0, FALSE), Number(1, FALSE), String(<<"s">>), Boolean(TRUE), Null,
     Identifier(<<"x">>)}

\* str() of a Number's value: an int, or a float with an integral value
NumStr(v) ==
    LET d == Digits[v.n + 1]
    IN IF v.f THEN <<d, ".", "0">> ELSE <<d>>

\* Parser._try_fold_binary; a right operand is a literal token, so a divisor
\* is 0 or 1
try_fold_binary(left, op_type, right) ==
    LET a == left.val
        b == right.val
    IN  CASE left.type = "Number" /\ right.type = "Number" ->
               CASE op_type = "PLUS" -> Number(a.n + b.n, a.f \/ b.f)
                 [] op_type = "DIVIDE" ->
                      IF b.n = 0 THEN NoFold ELSE Number(a.n \div b.n, TRUE)
                 [] op_type = "MODULO" ->
                      IF b.n = 0 THEN NoFold ELSE Number(a.n % b.n, a.f \/ b.f)
                 [] op_type = "EQUALS" -> Boolean(a.n = b.n)
                 [] OTHER -> NoFold
          [] left.type = "String" /\ right.type = "String" ->
               CASE op_type = "PLUS" -> String(a.s \o b.s)
                 [] op_type = "EQUALS" -> Boolean(a.s = b.s)
                 [] OTHER -> NoFold
          [] left.type = "String" /\ right.type = "Number" /\ op_type = "PLUS" ->
               String(a.s \o NumStr(b))
          [] left.type = "Number" /\ right.type = "String" /\ op_type = "PLUS" ->
               String(NumStr(a) \o b.s)
          [] left.type = "Boolean" /\ right.type = "Boolean" ->
               IF op_type = "EQUALS" THEN Boolean(a.b = b.b) ELSE NoFold
          [] OTHER -> NoFold

\* Parser._make_binary
make_binary_node(left, op_type, right) ==
    LET folded == try_fold_binary(left, op_type, right)
    IN IF folded.type # "None" THEN folded ELSE BinaryOperation(left, op_type, right)

InitParser ==
    /\ EnvStart
    /\ useResolver = FALSE
    /\ ExecIdle
    /\ TaskIdle
    /\ StopIdle
    /\ SymbolIdle
    /\ ImportIdle
    /\ CallIdle
    /\ ReactiveIdle
    /\ EntryIdle
    /\ ModuleIdle
    /\ ArithIdle
    /\ NamespaceIdle
    /\ ThreadEnvIdle
    /\ RunIdle
    /\ BundleIdle
    /\ CliIdle
    /\ LexIdle
    /\ ScenarioIdle
    /\ \E p \in Primaries : prs = [pc |-> "parsing", node |-> p, steps |-> 0]

\* Parser.equality: `node = self._make_binary(node, op, right)`
equality ==
    /\ prs.pc = "parsing"
    /\ prs.steps < MaxParseSteps
    /\ \E op \in {"EQUALS"}, right \in Primaries :
          prs' = [prs EXCEPT !.node = make_binary_node(prs.node, op, right),
                             !.steps = @ + 1]
    /\ UNCHANGED notParser

\* Parser.term: `node = self._make_binary(node, op, right)`
term ==
    /\ prs.pc = "parsing"
    /\ prs.steps < MaxParseSteps
    /\ \E op \in {"PLUS"}, right \in Primaries :
          prs' = [prs EXCEPT !.node = make_binary_node(prs.node, op, right),
                             !.steps = @ + 1]
    /\ UNCHANGED notParser

\* Parser.factor: `node = self._make_binary(node, op, right)`
factor ==
    /\ prs.pc = "parsing"
    /\ prs.steps < MaxParseSteps
    /\ \E op \in {"DIVIDE", "MODULO"}, right \in Primaries :
          prs' = [prs EXCEPT !.node = make_binary_node(prs.node, op, right),
                             !.steps = @ + 1]
    /\ UNCHANGED notParser

\* Parser.logic_and: `node = BinaryOperation(left=node, op=TokenType.AND, ...)`
logic_and ==
    /\ prs.pc = "parsing"
    /\ prs.steps < MaxParseSteps
    /\ \E right \in Primaries :
          prs' = [prs EXCEPT !.node = BinaryOperation(prs.node, "AND", right),
                             !.steps = @ + 1]
    /\ UNCHANGED notParser

\* Parser.unary: `return UnaryOperation(op.type, expr)`
unary ==
    /\ prs.pc = "parsing"
    /\ prs.steps < MaxParseSteps
    /\ \E op \in {"MINUS", "NOT"} :
          prs' = [prs EXCEPT !.node = UnaryOperation(op, prs.node),
                             !.steps = @ + 1]
    /\ UNCHANGED notParser

\* Parser.expression returns: the end of the expression
expression ==
    /\ prs.pc = "parsing"
    /\ prs' = [prs EXCEPT !.pc = "parsed"]
    /\ UNCHANGED notParser

NextParser ==
    \/ equality
    \/ term
    \/ factor
    \/ logic_and
    \/ unary
    \/ expression

SpecParser == InitParser /\ [][NextParser]_vars

IsLiteral(n) == n.type \in {"Number", "String", "Boolean", "Null"}

\* a division, floor division or remainder by the literal 0
DivisionByLiteralZero(n) ==
    /\ n.op \in {"DIVIDE", "FLOOR_DIVIDE", "MODULO"}
    /\ n.kids[2].type = "Number"
    /\ n.kids[2].val.n = 0

\* no operation node of the tree has only literal operands, divisions by the
\* literal 0 apart
RECURSIVE NoLiteralOperation(_)
NoLiteralOperation(n) ==
    /\ n.type = "BinaryOperation" =>
          \/ ~(IsLiteral(n.kids[1]) /\ IsLiteral(n.kids[2]))
          \/ DivisionByLiteralZero(n)
    /\ n.type = "UnaryOperation" => ~IsLiteral(n.kids[1])
    /\ \A i \in 1..Len(n.kids) : NoLiteralOperation(n.kids[i])

----------------------------------------------------------------------------
(* C23 *)

\* C23: a parsed expression holds no BinaryOperation or UnaryOperation whose
\* operands are all literals, except a division by the literal zero
C23_AllLiteralOperationsFolded ==
    prs.pc = "parsed" => NoLiteralOperation(prs.node)

----------------------------------------------------------------------------
(* SpecImport: modules whose bodies import modules                           *)

\* module files, import statements of one module body, and the nested loads
\* the interpreter's stack holds before Python raises RecursionError
MaxModules == 2
MaxBodyImports == 2
MaxLoadDepth == 3

Modules == 1..MaxModules
\* a module body is its sequence of `import m` statements; the files do not
\* change during the run
ModuleBodies == UNION {[1..n -> Modules] : n \in 0..MaxBodyImports}
ImportGraphs == [Modules -> ModuleBodies]

LoadFrame(m) == [mod |-> m, stmt |-> 1]

InitImport ==
    /\ EnvStart
    /\ useResolver = FALSE
    /\ ExecIdle
    /\ TaskIdle
    /\ StopIdle
    /\ SymbolIdle
    /\ CallIdle
    /\ ReactiveIdle
    /\ EntryIdle
    /\ ModuleIdle
    /\ ArithIdle
    /\ NamespaceIdle
    /\ ThreadEnvIdle
    /\ RunIdle
    /\ BundleIdle
    /\ CliIdle
    /\ LexIdle
    /\ ScenarioIdle
    /\ ParserIdle
    /\ \E g \in ImportGraphs :
          imp = [pc |-> "script", graph |-> g, loads |-> <<>>,
                 cached |-> {}, executions |-> [m \in Modules |-> 0],
                 error |-> FALSE]

\* `cached and cached['mtime'] == mtime`: the file is unchanged, so an entry
\* of the cache is a hit
ModuleCached(st, m) == m \in st.cached

\* _load_aml_module(m) up to the execution of the body: a cache hit returns,
\* a miss makes the module environment and starts on the statements
load_module_begin(st, m) ==
    IF ModuleCached(st, m) THEN [st EXCEPT !.error = FALSE]
    ELSE IF Len(st.loads) >= MaxLoadDepth
    THEN [st EXCEPT !.error = TRUE]
    ELSE [st EXCEPT !.loads = Append(@, LoadFrame(m)),
                    !.executions[m] = @ + 1,
                    !.error = FALSE]

\* `import m` in the main script: execute_ImportAml calls _load_aml_module
script_import(m) ==
    /\ imp.pc = "script"
    /\ imp.loads = <<>>
    /\ imp' = load_module_begin(imp, m)
    /\ UNCHANGED notImport

\* `for stmt in module_ast.statements: self.execute(stmt)` at `import m`:
\* execute_ImportAml loads m and prints the error of a load that fails
body_import ==
    /\ imp.loads # <<>>
    /\ LET top == imp.loads[Len(imp.loads)]
           body == imp.graph[top.mod]
       IN /\ top.stmt <= Len(body)
          /\ imp' = load_module_begin(
                        [imp EXCEPT !.loads[Len(imp.loads)].stmt = @ + 1],
                        body[top.stmt])
    /\ UNCHANGED notImport

\* the statements are done: the entry is stored and _load_aml_module returns
body_end ==
    /\ imp.loads # <<>>
    /\ LET top == imp.loads[Len(imp.loads)]
       IN /\ top.stmt > Len(imp.graph[top.mod])
          /\ imp' = [imp EXCEPT !.loads = SubSeq(@, 1, Len(@) - 1),
                                !.cached = @ \cup {top.mod},
                                !.error = FALSE]
    /\ UNCHANGED notImport

NextImport ==
    \/ \E m \in Modules : script_import(m)
    \/ body_import
    \/ body_end

SpecImport == InitImport /\ [][NextImport]_vars

----------------------------------------------------------------------------
(* C26 *)

\* C26: whatever the import graph, cyclic ones included, the body of a module
\* whose file does not change is executed at most once
C26_BodyExecutedOnce ==
    imp.pc = "script" => \A m \in Modules : imp.executions[m] <= 1

----------------------------------------------------------------------------
(* C27 *)

\* the slot and the dict entry of a name with an index hold the same value
SlotsAgree(e) ==
    \A n \in AllNames :
        e.name_to_index[n] # -1 =>
            /\ e.name_to_index[n] < Len(e.slots)
            /\ e.slots[e.name_to_index[n] + 1] = e.values[n]

\* C27: in every Environment the program reaches, slots[name_to_index[n]]
\* and values[n] agree for every name n of name_to_index
C27_SlotsAgreeWithValues ==
    \A i \in 1..Len(envs) : SlotsAgree(envs[i])

----------------------------------------------------------------------------
(* SpecSymbol: dotted names resolved through Interpreter._symbol_cache       *)

\* namespace objects, environments, and definitions, assignments, attribute
\* assignments and calls of one run
MaxObjs == 2
MaxSymEnvs == 2
MaxSymOps == 3

ObjV(id) == [k |-> "obj", v |-> id]
Objs == {ObjV(i) : i \in 1..MaxObjs}
ResolveError == [k |-> "error", v |-> 0]

\* the dotted names resolved: `a` and `a.b`
DottedNames == {<<"a">>, <<"a", "b">>}

NoCached == [present |-> FALSE, ver |-> <<0, 0>>, obj |-> None]

notSymbolEnv == <<execVars, taskVars, callVars, reactVars, entryVars, moduleVars, arithVars, nsVars, threadEnvVars, runVars, bundleVars, cliVars, lexVars, scnVars, prsVars, impVars,
             stpVars>>
notStop == <<envVars, execVars, taskVars, callVars, reactVars, entryVars, moduleVars, arithVars, nsVars, threadEnvVars, runVars, bundleVars, cliVars, lexVars, scnVars, prsVars, impVars, symVars>>
symFrame == <<scopes, sig_value, sig_subs, ns_obj, halted, lastStmt, nOps, useResolver>>

InitSymbol ==
    /\ EnvStart
    /\ useResolver = FALSE
    /\ ExecIdle
    /\ TaskIdle
    /\ StopIdle
    /\ CallIdle
    /\ ReactiveIdle
    /\ EntryIdle
    /\ ModuleIdle
    /\ ArithIdle
    /\ NamespaceIdle
    /\ ThreadEnvIdle
    /\ RunIdle
    /\ BundleIdle
    /\ CliIdle
    /\ LexIdle
    /\ ScenarioIdle
    /\ ParserIdle
    /\ ImportIdle
    /\ sym = [pc |-> "run", attrs |-> [i \in 1..MaxObjs |-> Absent],
              cache |-> [d \in DottedNames |-> NoCached], ops |-> 0,
              last |-> [dotted |-> <<>>, hit |-> FALSE, result |-> None,
                        fresh |-> None]]

\* `for p in parts[1:]`: obj.p of a namespace object, or the RuntimeError
RECURSIVE WalkAttributes(_, _, _, _)
WalkAttributes(attrs, obj, parts, i) ==
    IF i > Len(parts) THEN obj
    ELSE IF obj.k = "obj" /\ attrs[obj.v] # Absent
    THEN WalkAttributes(attrs, attrs[obj.v], parts, i + 1)
    ELSE ResolveError

\* _resolve_dotted_symbol from `parts = dotted.split('.')` on: the
\* resolution without the cache
resolve_uncached(es, c, attrs, parts) ==
    LET here == Environment_try_get(es, c, parts[1])
        base == IF here = Absent THEN Environment_try_get(es, 1, parts[1]) ELSE here
    IN IF base = Absent THEN ResolveError ELSE WalkAttributes(attrs, base, parts, 2)

\* `ver = (self.environment._version, self.global_env._version)`
SymbolVersion(es, c) == <<es[c].version, es[1].version>>

\* `cached and cached[0] == ver`
SymbolCacheHit(entry, ver) == entry.present /\ entry.ver = ver

\* Interpreter._resolve_dotted_symbol(dotted)
resolve_dotted_symbol(dotted) ==
    /\ sym.pc = "run"
    /\ LET ver == SymbolVersion(envs, cur)
           cached == sym.cache[dotted]
           fresh == resolve_uncached(envs, cur, sym.attrs, dotted)
           hit == SymbolCacheHit(cached, ver)
       IN sym' = [sym EXCEPT
                    !.cache = IF hit \/ fresh = ResolveError THEN @
                              ELSE [@ EXCEPT ![dotted] =
                                      [present |-> TRUE, ver |-> ver, obj |-> fresh]],
                    !.last = [dotted |-> dotted, hit |-> hit,
                              result |-> IF hit THEN cached.obj ELSE fresh,
                              fresh |-> fresh]]
    /\ UNCHANGED <<envs, cur>>
    /\ UNCHANGED symFrame
    /\ UNCHANGED notSymbolEnv

\* `var a = <object>`: Environment.define in the current environment
symbol_define(o) ==
    /\ sym.pc = "run"
    /\ sym.ops < MaxSymOps
    /\ envs' = [envs EXCEPT ![cur] = Environment_define(@, "a", o, -1, FALSE)]
    /\ sym' = [sym EXCEPT !.ops = @ + 1]
    /\ UNCHANGED cur
    /\ UNCHANGED symFrame
    /\ UNCHANGED notSymbolEnv

\* `a = <object>`: Environment.assign from the current environment
symbol_assign(o) ==
    /\ sym.pc = "run"
    /\ sym.ops < MaxSymOps
    /\ LET r == Environment_assign(envs, cur, "a", o)
       IN /\ r.err = "none"
          /\ envs' = r.envs
    /\ sym' = [sym EXCEPT !.ops = @ + 1]
    /\ UNCHANGED cur
    /\ UNCHANGED symFrame
    /\ UNCHANGED notSymbolEnv

\* `x.b = <object>`: execute_Assignment with an AttributeAccess target,
\* setattr(obj, attr_name, value)
symbol_setattr(i, o) ==
    /\ sym.pc = "run"
    /\ sym.ops < MaxSymOps
    /\ sym' = [sym EXCEPT !.attrs[i] = o, !.ops = @ + 1]
    /\ UNCHANGED <<envs, cur>>
    /\ UNCHANGED symFrame
    /\ UNCHANGED notSymbolEnv

\* Function.call of a function declared at the top level: the body runs in a
\* new Environment whose enclosing one is the global environment
symbol_call ==
    /\ sym.pc = "run"
    /\ cur = 1
    /\ Len(envs) < MaxSymEnvs
    /\ envs' = Append(envs, Environment(1, 0))
    /\ cur' = Len(envs) + 1
    /\ UNCHANGED sym
    /\ UNCHANGED symFrame
    /\ UNCHANGED notSymbolEnv

\* the call returns: execute_block restores the caller's environment
symbol_return ==
    /\ sym.pc = "run"
    /\ cur # 1
    /\ cur' = 1
    /\ UNCHANGED <<envs, sym>>
    /\ UNCHANGED symFrame
    /\ UNCHANGED notSymbolEnv

NextSymbol ==
    \/ \E d \in DottedNames : resolve_dotted_symbol(d)
    \/ \E o \in Objs : symbol_define(o)
    \/ \E o \in Objs : symbol_assign(o)
    \/ \E i \in 1..MaxObjs, o \in Objs : symbol_setattr(i, o)
    \/ symbol_call
    \/ symbol_return

SpecSymbol == InitSymbol /\ [][NextSymbol]_vars

----------------------------------------------------------------------------
(* C28 *)

\* C28: _resolve_dotted_symbol returns what a resolution of the dotted name
\* without the cache returns at that moment in the current environment
C28_CacheAgreesWithResolution ==
    sym.last.dotted # <<>> => sym.last.result = sym.last.fresh

----------------------------------------------------------------------------
(* SpecStop: AMLRuntime.call_function, parallel_call and stop() of another   *)
(* thread                                                                    *)

\* threads that call call_function, statements of the called function
MaxCallers == 2
MaxCallStmts == 2

Callers == 1..MaxCallers
CallVias == {"direct", "parallel"}
NoHolder == 0

\* call_function: `with self._lock:` encloses `return callee.call(...)`
LockHeldDuringCall == TRUE

InitStop ==
    /\ EnvStart
    /\ useResolver = FALSE
    /\ ExecIdle
    /\ TaskIdle
    /\ CallIdle
    /\ ReactiveIdle
    /\ EntryIdle
    /\ ModuleIdle
    /\ ArithIdle
    /\ NamespaceIdle
    /\ ThreadEnvIdle
    /\ RunIdle
    /\ BundleIdle
    /\ CliIdle
    /\ LexIdle
    /\ ScenarioIdle
    /\ ParserIdle
    /\ ImportIdle
    /\ SymbolIdle
    /\ \E len \in 1..MaxCallStmts :
          stp = [pc |-> "run", len |-> len, lock |-> NoHolder, cancelled |-> FALSE,
                 stop |-> "none",
                 callers |-> [c \in Callers |-> [pc |-> "idle", via |-> "direct", i |-> 0]]]

\* the host calls call_function, or parallel_call, which starts the thread
\* of _runner
call_begin(c, via) ==
    /\ stp.pc = "run"
    /\ stp.callers[c].pc = "idle"
    /\ stp' = [stp EXCEPT !.callers[c].via = via,
                          !.callers[c].pc = IF via = "parallel" THEN "thread"
                                            ELSE "called"]
    /\ UNCHANGED notStop

\* parallel_call: _runner calls self.call_function(name, *args)
runner_begin(c) ==
    /\ stp.pc = "run"
    /\ stp.callers[c].pc = "thread"
    /\ stp' = [stp EXCEPT !.callers[c].pc = "called"]
    /\ UNCHANGED notStop

\* call_function: the lock is taken, the name resolved and callee.call begun
call_function_lock(c) ==
    /\ stp.pc = "run"
    /\ stp.callers[c].pc = "called"
    /\ stp.lock = NoHolder
    /\ stp' = [stp EXCEPT !.callers[c].pc = "body",
                          !.lock = IF LockHeldDuringCall THEN c ELSE NoHolder]
    /\ UNCHANGED notStop

\* the called function executes its next statement; its loops leave when the
\* cancel flag is set
call_statement(c) ==
    /\ stp.pc = "run"
    /\ stp.callers[c].pc = "body"
    /\ stp.callers[c].i < stp.len
    /\ ~stp.cancelled
    /\ stp' = [stp EXCEPT !.callers[c].i = @ + 1]
    /\ UNCHANGED notStop

\* callee.call returns and the `with` block of call_function is left
call_function_return(c) ==
    /\ stp.pc = "run"
    /\ stp.callers[c].pc = "body"
    /\ stp.callers[c].i = stp.len \/ stp.cancelled
    /\ stp' = [stp EXCEPT !.callers[c].pc = "returned",
                          !.lock = IF @ = c THEN NoHolder ELSE @]
    /\ UNCHANGED notStop

\* another thread calls stop() and reaches `with self._lock:`
stop_call ==
    /\ stp.pc = "run"
    /\ stp.stop = "none"
    /\ stp' = [stp EXCEPT !.stop = "waiting"]
    /\ UNCHANGED notStop

\* stop(): under the lock `self.interpreter.cancel(); self._started = False`
stop_cancel ==
    /\ stp.pc = "run"
    /\ stp.stop = "waiting"
    /\ stp.lock = NoHolder
    /\ stp' = [stp EXCEPT !.stop = "returned", !.cancelled = TRUE]
    /\ UNCHANGED notStop

NextStop ==
    \/ \E c \in Callers, via \in CallVias : call_begin(c, via)
    \/ \E c \in Callers : runner_begin(c)
    \/ \E c \in Callers : call_function_lock(c)
    \/ \E c \in Callers : call_statement(c)
    \/ \E c \in Callers : call_function_return(c)
    \/ stop_call
    \/ stop_cancel

SpecStop == InitStop /\ [][NextStop]_vars

----------------------------------------------------------------------------
(* C30 *)

\* C30: stop() called by another thread never waits for running script code:
\* while it has not set the cancel flag, no thread that executes a function
\* through call_function, directly or in a parallel_call task, holds the lock
\* that stop() needs
C30_StopDoesNotWaitForCall ==
    stp.pc = "run" /\ stp.stop = "waiting" =>
        \A c \in Callers : ~(stp.callers[c].pc = "body" /\ stp.lock = c)

====
